---- MODULE Spec2Model ----
(***************************************************************************)
(* Financial portfolio scanner: the tool functions of                      *)
(* agents/tool_functions.py (get_portfolio_holdings, scan_market_news,     *)
(* analyze_risk_exposure), the scan orchestrator of                        *)
(* agents/orchestrator_agent.py, the reporting agent of                    *)
(* agents/reporting_agent.py and batch_process_portfolios of main.py.      *)
(*                                                                         *)
(* Conventions of the model                                                *)
(*   - A Python str holding JSON is a record [text, doc]: text is "json"   *)
(*     for the output of json.dumps (doc is the encoded document),         *)
(*     "blank" for an empty or whitespace-only string and "malformed" for  *)
(*     a string json.loads rejects.                                        *)
(*   - A Python dict is a TLA+ record; dict.get(k, d) is Get.              *)
(*   - An ISO timestamp string is a sequence: <<t>> is                     *)
(*     datetime.now().isoformat() read at clock value t, <<>> is "".       *)
(*   - A call returns an outcome [status, value]: status "ok" with the     *)
(*     returned value, or the name of the raised exception with its        *)
(*     message.                                                            *)
(*   - A Python str that is not JSON, and whose content matters, is        *)
(*     [text |-> "plain", chars |-> parts]: parts is the sequence of the   *)
(*     pieces of the f-string that built it.  The message of an error      *)
(*     raised by the orchestrator or by main.py is such a sequence of      *)
(*     parts too; the tool functions keep one-piece messages.              *)
(*   - The orchestrator reaches its collaborators through names of its     *)
(*     module (get_portfolio_holdings, scan_market_news,                   *)
(*     analyze_risk_exposure, reporting_agent.generate_report); a name is  *)
(*     bound to the function of the repository or to a replacement that    *)
(*     returns a fixed value or raises, as the test suite binds them.      *)
(*   - generate_response is a coroutine: gen maps each caller to the       *)
(*     await its call is suspended at; one action is one resumption.       *)
(*     SpecAgent has one caller (calls in sequence), SpecConcurrent two    *)
(*     on one event loop, SpecAgentFair is SpecAgent with every            *)
(*     resumption weakly fair.  service is the remote agent service: the   *)
(*     number of agents it created and the agents runs were created on.    *)
(***************************************************************************)
EXTENDS Integers, Sequences, FiniteSets, TLC

\* ------------------------------------------------------------------ bounds
MaxHoldings == 16
MaxAlerts == 4
MaxClock == 1
MaxTickers == 3
MaxFunds == 2

VARIABLES
    portfolio_data,   \* str argument of analyze_risk_exposure
    news_data,        \* str argument of analyze_risk_exposure
    now,              \* the wall clock read by datetime.datetime.now()
    risk_call,        \* the latest call of analyze_risk_exposure: arguments and outcome
    tickers,          \* list argument of scan_market_news
    scan_call,        \* the latest call of scan_market_news: arguments and outcome
    patches,          \* what each collaborator name of the orchestrator is bound to
    orch_call,        \* the latest call of an orchestrator method: arguments, calls made, outcome
    fund_names,       \* list argument of batch_process_portfolios
    scan_patches,     \* the collaborator bindings in force during the scan of each fund
    console,          \* the encoding of standard output, which print() writes to
    batch_pc,         \* where batch_process_portfolios is: "start", "loop", "done"
    results,          \* the results list of batch_process_portfolios
    scans,            \* what each orchestrator.scan_portfolio call of the batch did
    batch_out,        \* the outcome of batch_process_portfolios
    config,           \* the Settings attributes and the import flags of reporting_agent.py
    reporter,         \* the AzureReportingAgent instance, once constructed
    gen,              \* per caller: the generate_response call in flight, or the latest one
    service           \* the remote agent service: agents created, agents runs were created against

orch_vars == <<patches, orch_call>>

batch_vars == <<fund_names, scan_patches, console, batch_pc, results, scans, batch_out>>

tool_vars == <<portfolio_data, news_data, risk_call, tickers, scan_call>>

agent_vars == <<config, reporter, gen, service>>

pipeline_vars == <<orch_vars, batch_vars, agent_vars>>

vars == <<portfolio_data, news_data, now, risk_call, tickers, scan_call, pipeline_vars>>

\* ------------------------------------------------------- Python primitives
None == "<None>"

Min(a, b) == IF a < b THEN a ELSE b

Max(a, b) == IF a > b THEN a ELSE b

Get(d, k, default) == IF k \in DOMAIN d THEN d[k] ELSE default

isoformat(t) == <<t>>

Return(v) == [status |-> "ok", value |-> v]

Raise(exc, msg) == [status |-> exc, message |-> msg]

\* ------------------------------------------------------------------- JSON
BlankStr == [text |-> "blank"]

MalformedStr == [text |-> "malformed"]

json_dumps(d) == [text |-> "json", doc |-> d]

json_loads(s) == s.doc

IsBlank(s) == s.text = "blank"

IsJson(s) == s.text = "json"

\* ------------------------------------------------- analyze_risk_exposure
base_risk == 30

\* A missing sentiment counted as the sentiment asked for.
RECURSIVE CountSentimentDefaulting(_, _)
CountSentimentDefaulting(alerts, s) ==
    IF alerts = <<>> THEN 0
    ELSE (IF Get(Head(alerts), "sentiment", s) = s THEN 1 ELSE 0)
         + CountSentimentDefaulting(Tail(alerts), s)

RECURSIVE CountSentiment(_, _)
CountSentiment(alerts, s) ==
    IF alerts = <<>> THEN 0
    ELSE (IF Get(Head(alerts), "sentiment", None) = s THEN 1 ELSE 0)
         + CountSentiment(Tail(alerts), s)

\* Concentration risk that falls with the number of holdings.
concentration_risk_diversifying(total_holdings) ==
    Min(20, Max(0, (15 - total_holdings) * 2))

concentration_risk(total_holdings) ==
    Min(20, Max(0, (total_holdings - 5) * 2))

\* News risk that decays with the time of the call.
news_risk_aged(negative_alerts) == Max(0, Min(30, negative_alerts * 10) - now)

\* Five points per negative alert instead of ten.
news_risk_half(negative_alerts) == Min(30, negative_alerts * 5)

news_risk(negative_alerts) == Min(30, negative_alerts * 10)

\* The benefit capped at 5 instead of 15.
news_benefit_low_cap(positive_alerts) == Min(5, positive_alerts * 5)

\* The benefit without its cap of 15.
news_benefit_uncapped(positive_alerts) == positive_alerts * 5

news_benefit(positive_alerts) == Min(15, positive_alerts * 5)

\* The sum of the risk terms, without the base and without the outer clamp.
risk_score_terms_only(total_holdings, negative_alerts, positive_alerts) ==
    concentration_risk(total_holdings)
    + news_risk(negative_alerts) - news_benefit(positive_alerts)

risk_score(total_holdings, negative_alerts, positive_alerts) ==
    Min(100, Max(0, base_risk + concentration_risk(total_holdings)
                    + news_risk(negative_alerts) - news_benefit(positive_alerts)))

\* Closed instead of half-open bands.
overall_risk_level_inclusive(score) ==
    IF score <= 25 THEN "Low"
    ELSE IF score <= 50 THEN "Medium"
    ELSE IF score <= 75 THEN "High"
    ELSE "Critical"

overall_risk_level(score) ==
    IF score < 25 THEN "Low"
    ELSE IF score < 50 THEN "Medium"
    ELSE IF score < 75 THEN "High"
    ELSE "Critical"

\* No sentiment finding when the counts are equal.
key_findings_no_tie(total_holdings, negative_alerts, positive_alerts, score) ==
    << IF total_holdings < 5
         THEN "Portfolio shows low diversification with limited number of holdings"
       ELSE IF total_holdings > 15
         THEN "Portfolio may be over-diversified, potentially diluting returns"
       ELSE "Portfolio shows adequate diversification across holdings" >>
    \o
    (IF negative_alerts > positive_alerts
       THEN <<"Negative news sentiment outweighs positive sentiment for portfolio holdings">>
     ELSE IF positive_alerts > negative_alerts
       THEN <<"Positive news sentiment outweighs negative sentiment for portfolio holdings">>
     ELSE <<>>)
    \o
    << IF score > 70
         THEN "High risk exposure detected, immediate attention recommended"
       ELSE IF score > 40
         THEN "Moderate risk exposure detected, monitoring recommended"
       ELSE "Low risk exposure detected, portfolio appears well-balanced" >>

key_findings(total_holdings, negative_alerts, positive_alerts, score) ==
    << IF total_holdings < 5
         THEN "Portfolio shows low diversification with limited number of holdings"
       ELSE IF total_holdings > 15
         THEN "Portfolio may be over-diversified, potentially diluting returns"
       ELSE "Portfolio shows adequate diversification across holdings" >>
    \o
    << IF negative_alerts > positive_alerts
         THEN "Negative news sentiment outweighs positive sentiment for portfolio holdings"
       ELSE IF positive_alerts > negative_alerts
         THEN "Positive news sentiment outweighs negative sentiment for portfolio holdings"
       ELSE "Neutral news sentiment balance for portfolio holdings" >>
    \o
    << IF score > 70
         THEN "High risk exposure detected, immediate attention recommended"
       ELSE IF score > 40
         THEN "Moderate risk exposure detected, monitoring recommended"
       ELSE "Low risk exposure detected, portfolio appears well-balanced" >>

\* The guards chained as if / elif: the first that holds wins.
action_items_exclusive(conc, negative_alerts, score) ==
    IF conc > 10
      THEN <<"Consider diversifying portfolio to reduce concentration risk">>
    ELSE IF negative_alerts > 2
      THEN <<"Review holdings with negative news sentiment and consider rebalancing">>
    ELSE IF score > 50
      THEN <<"Implement risk mitigation strategies for high-risk holdings",
             "Consider setting up stop-loss orders for volatile positions">>
    ELSE IF score < 30
      THEN <<"Current risk level is low, consider opportunities for strategic growth">>
    ELSE <<>>

action_items(conc, negative_alerts, score) ==
    (IF conc > 10
       THEN <<"Consider diversifying portfolio to reduce concentration risk">>
       ELSE <<>>)
    \o
    (IF negative_alerts > 2
       THEN <<"Review holdings with negative news sentiment and consider rebalancing">>
       ELSE <<>>)
    \o
    (IF score > 50
       THEN <<"Implement risk mitigation strategies for high-risk holdings",
              "Consider setting up stop-loss orders for volatile positions">>
       ELSE <<>>)
    \o
    (IF score < 30
       THEN <<"Current risk level is low, consider opportunities for strategic growth">>
       ELSE <<>>)

\* round(risk_score * f, 1) for f in {0.7, 0.3, 0.5} is kept in tenths.
exposure_metrics(conc, nrisk, nbenefit, score) ==
    [ concentration_risk       |-> conc,
      news_sentiment_impact    |-> nrisk - nbenefit,
      volatility_exposure_x10  |-> score * 7,
      liquidity_risk_x10       |-> score * 3,
      market_risk_x10          |-> score * 5 ]

analyze_risk_exposure(pdata, ndata, clock) ==
    IF IsBlank(pdata)
      THEN Raise("ValueError", "portfolio_data cannot be empty or contain only whitespace")
    ELSE IF IsBlank(ndata)
      THEN Raise("ValueError", "news_data cannot be empty or contain only whitespace")
    ELSE IF ~IsJson(pdata) \/ ~IsJson(ndata)
      THEN Raise("RuntimeError", "Failed to parse JSON input")
    ELSE
      LET portfolio       == json_loads(pdata)
          news            == json_loads(ndata)
          holdings        == Get(portfolio, "holdings", <<>>)
          alerts          == Get(news, "alerts", <<>>)
          total_holdings  == Len(holdings)
          negative_alerts == CountSentiment(alerts, "Negative")
          positive_alerts == CountSentiment(alerts, "Positive")
          conc            == concentration_risk(total_holdings)
          nrisk           == news_risk(negative_alerts)
          nbenefit        == news_benefit(positive_alerts)
          score           == risk_score(total_holdings, negative_alerts, positive_alerts)
      IN  Return(json_dumps(
            [ analysis_timestamp |-> isoformat(clock),
              overall_risk_level |-> overall_risk_level(score),
              risk_score         |-> score,
              key_findings       |-> key_findings(total_holdings, negative_alerts,
                                                  positive_alerts, score),
              action_items       |-> action_items(conc, negative_alerts, score),
              exposure_metrics   |-> exposure_metrics(conc, nrisk, nbenefit, score) ]))

\* --------------------------------------- callers of analyze_risk_exposure
Sentiments == {"Positive", "Negative", "Neutral"}

\* An alert as the risk engine reads it: only the sentiment key is looked at,
\* and it may be missing.
AlertKinds ==
    {[ticker |-> "AAPL", sentiment |-> s] : s \in Sentiments}
    \cup {[ticker |-> "AAPL"]}

Holding == [ticker |-> "AAPL", name |-> "Apple Inc."]

NoCall == [called |-> FALSE]

\* The orchestrator, the batch and the reporting agent are not part of the
\* specifications of the tool functions.
OrchIdle ==
    /\ patches = NoCall
    /\ orch_call = NoCall

BatchIdle ==
    /\ fund_names = <<>>
    /\ scan_patches = <<>>
    /\ console = "utf-8"
    /\ batch_pc = "start"
    /\ results = <<>>
    /\ scans = <<>>
    /\ batch_out = NoCall

AgentIdle ==
    /\ config = NoCall
    /\ reporter = NoCall
    /\ gen = NoCall
    /\ service = NoCall

PipelineIdle == OrchIdle /\ BatchIdle /\ AgentIdle

\* The tool functions are not called on their own in the specifications of the
\* orchestrator, the batch and the reporting agent.
ToolsIdle ==
    /\ portfolio_data = BlankStr
    /\ news_data = BlankStr
    /\ risk_call = NoCall
    /\ tickers = <<>>
    /\ scan_call = NoCall

InitRisk ==
    /\ portfolio_data \in
         { BlankStr, MalformedStr,
           json_dumps([fund_name |-> "Fund"]),
           json_dumps([fund_name |-> "Fund", holdings |-> <<>>]) }
    /\ news_data \in
         { BlankStr, MalformedStr,
           json_dumps([scan_timestamp |-> <<>>]),
           json_dumps([scan_timestamp |-> <<>>, alerts |-> <<>>]) }
    /\ now = 0
    /\ risk_call = NoCall
    /\ tickers = <<>>
    /\ scan_call = NoCall
    /\ PipelineIdle

\* The caller puts one more holding into the portfolio document; the outcome
\* it held was for the arguments as they were and is dropped.
AddHolding ==
    /\ IsJson(portfolio_data)
    /\ "holdings" \in DOMAIN portfolio_data.doc
    /\ Len(portfolio_data.doc.holdings) < MaxHoldings
    /\ portfolio_data' =
         json_dumps([portfolio_data.doc EXCEPT !.holdings = Append(@, Holding)])
    /\ risk_call' = NoCall
    /\ UNCHANGED <<news_data, now, tickers, scan_call, pipeline_vars>>

\* The caller puts one more alert into the news document.
AddAlert ==
    /\ IsJson(news_data)
    /\ "alerts" \in DOMAIN news_data.doc
    /\ Len(news_data.doc.alerts) < MaxAlerts
    /\ \E a \in AlertKinds :
         news_data' = json_dumps([news_data.doc EXCEPT !.alerts = Append(@, a)])
    /\ risk_call' = NoCall
    /\ UNCHANGED <<portfolio_data, now, tickers, scan_call, pipeline_vars>>

\* One call of analyze_risk_exposure; the clock is read during the call.  The
\* caller keeps the outcome of the preceding call on the same arguments.
AnalyzeRisk ==
    /\ \E t \in now .. Min(now + 1, MaxClock) :
         /\ now' = t
         /\ risk_call' =
              [ called         |-> TRUE,
                portfolio_data |-> portfolio_data,
                news_data      |-> news_data,
                previous       |-> IF risk_call.called THEN risk_call.outcome
                                                       ELSE [status |-> "none"],
                outcome        |-> analyze_risk_exposure(portfolio_data, news_data, t) ]
    /\ UNCHANGED <<portfolio_data, news_data, tickers, scan_call, pipeline_vars>>

NextRisk == AddHolding \/ AddAlert \/ AnalyzeRisk

SpecRisk == InitRisk /\ [][NextRisk]_vars

\* ------------------------------------------------------ scan_market_news
\* str.strip() on the strings of the model: " " stands for every
\* whitespace-only string, " AAPL " for a padded symbol.
strip(t) == IF t \in {"", " "} THEN "" ELSE IF t = " AAPL " THEN "AAPL" ELSE t

\* The alerts appended for one ticker (impact_score is kept in hundredths, a
\* headline as the sequence of the parts of its f-string).
mock_alerts(ticker) ==
    IF ticker = "AAPL" THEN
      << [ ticker |-> "AAPL", alert_type |-> "Earnings Report", severity |-> "Medium",
           headline |-> <<"Apple Inc. Reports Q4 Earnings Beat Expectations">>,
           sentiment |-> "Positive", impact_score_x100 |-> 75,
           source |-> "Financial Times" ],
         [ ticker |-> "AAPL", alert_type |-> "Product Launch", severity |-> "High",
           headline |-> <<"Apple Announces New iPhone Model with Advanced AI Features">>,
           sentiment |-> "Positive", impact_score_x100 |-> 85,
           source |-> "TechCrunch" ] >>
    ELSE IF ticker = "MSFT" THEN
      << [ ticker |-> "MSFT", alert_type |-> "Regulatory", severity |-> "Medium",
           headline |-> <<"Microsoft Faces EU Antitrust Investigation Over Cloud Practices">>,
           sentiment |-> "Negative", impact_score_x100 |-> -65,
           source |-> "Reuters" ],
         [ ticker |-> "MSFT", alert_type |-> "Partnership", severity |-> "Medium",
           headline |-> <<"Microsoft Announces Strategic Partnership with OpenAI Competitor">>,
           sentiment |-> "Positive", impact_score_x100 |-> 60,
           source |-> "Bloomberg" ] >>
    ELSE IF ticker = "GOOGL" THEN
      << [ ticker |-> "GOOGL", alert_type |-> "Legal", severity |-> "High",
           headline |-> <<"Alphabet Faces Record $5 Billion Fine in EU Antitrust Case">>,
           sentiment |-> "Negative", impact_score_x100 |-> -80,
           source |-> "Wall Street Journal" ] >>
    ELSE IF ticker = "AMZN" THEN
      << [ ticker |-> "AMZN", alert_type |-> "Expansion", severity |-> "Medium",
           headline |-> <<"Amazon Expands Grocery Store Chain to 50 New Locations">>,
           sentiment |-> "Positive", impact_score_x100 |-> 55,
           source |-> "CNBC" ] >>
    ELSE IF ticker = "JPM" THEN
      << [ ticker |-> "JPM", alert_type |-> "Financial Results", severity |-> "Medium",
           headline |-> <<"JPMorgan Chase Reports Record Quarterly Profits">>,
           sentiment |-> "Positive", impact_score_x100 |-> 70,
           source |-> "Financial Times" ] >>
    ELSE
      << [ ticker |-> ticker, alert_type |-> "Market Movement", severity |-> "Low",
           headline |-> <<ticker, " Shows Unusual Trading Volume Today">>,
           sentiment |-> "Neutral", impact_score_x100 |-> 10,
           source |-> "MarketWatch" ] >>

\* Each ticker's alerts put in front of the list instead of behind it.
RECURSIVE extend_alerts_in_front(_, _)
extend_alerts_in_front(acc, tk) ==
    IF tk = <<>> THEN acc
    ELSE extend_alerts_in_front(mock_alerts(Head(tk)) \o acc, Tail(tk))

\* A ticker that was already scanned is skipped.
RECURSIVE extend_alerts_once(_, _)
extend_alerts_once(acc, tk) ==
    IF tk = <<>> THEN acc
    ELSE extend_alerts_once(
           IF \E j \in 1 .. Len(acc) : acc[j].ticker = Head(tk)
             THEN acc ELSE acc \o mock_alerts(Head(tk)),
           Tail(tk))

\* The loop over the tickers: news_data["alerts"].extend(alerts).
RECURSIVE extend_alerts(_, _)
extend_alerts(acc, tk) ==
    IF tk = <<>> THEN acc
    ELSE extend_alerts(acc \o mock_alerts(Head(tk)), Tail(tk))

scan_market_news(tk, clock) ==
    IF tk = <<>>
      THEN Raise("ValueError", "tickers list cannot be empty")
    ELSE IF \E i \in 1 .. Len(tk) : strip(tk[i]) = ""
      THEN Raise("ValueError", "Ticker symbols cannot be empty or contain only whitespace")
    ELSE Return(json_dumps(
           [ scan_timestamp |-> isoformat(clock),
             alerts         |-> extend_alerts(<<>>, tk) ]))

\* -------------------------------------------- callers of scan_market_news
\* The five tickers of the table, one ticker outside it, a padded spelling of
\* a ticker of the table, and a blank string.
TickerSymbols == {"AAPL", "MSFT", "GOOGL", "AMZN", "JPM", "XYZ", " AAPL ", " "}

InitNews ==
    /\ tickers = <<>>
    /\ scan_call = NoCall
    /\ now = 0
    /\ portfolio_data = BlankStr
    /\ news_data = BlankStr
    /\ risk_call = NoCall
    /\ PipelineIdle

\* The caller puts one more ticker into the list; the outcome it held was for
\* the list as it was and is dropped.
AddTicker ==
    /\ Len(tickers) < MaxTickers
    /\ \E t \in TickerSymbols : tickers' = Append(tickers, t)
    /\ scan_call' = NoCall
    /\ UNCHANGED <<now, portfolio_data, news_data, risk_call, pipeline_vars>>

\* One call of scan_market_news; the clock is read during the call.
ScanNews ==
    /\ \E t \in now .. Min(now + 1, MaxClock) :
         /\ now' = t
         /\ scan_call' =
              [ called  |-> TRUE,
                tickers |-> tickers,
                outcome |-> scan_market_news(tickers, t) ]
    /\ UNCHANGED <<tickers, portfolio_data, news_data, risk_call, pipeline_vars>>

NextNews == AddTicker \/ ScanNews

SpecNews == InitNews /\ [][NextNews]_vars

\* A fixture of the first two holdings only.
FixtureHoldingsTopTwo ==
    << [ticker |-> "AAPL",  name |-> "Apple Inc.",            weight_x10 |-> 152, value |-> 152000],
       [ticker |-> "MSFT",  name |-> "Microsoft Corporation", weight_x10 |-> 128, value |-> 128000] >>

\* ------------------------------------------------- get_portfolio_holdings
\* The holdings and the sector allocation of the fixture (weights in tenths
\* of a percent).
FixtureHoldings ==
    << [ticker |-> "AAPL",  name |-> "Apple Inc.",            weight_x10 |-> 152, value |-> 152000],
       [ticker |-> "MSFT",  name |-> "Microsoft Corporation", weight_x10 |-> 128, value |-> 128000],
       [ticker |-> "GOOGL", name |-> "Alphabet Inc.",         weight_x10 |-> 105, value |-> 105000],
       [ticker |-> "AMZN",  name |-> "Amazon.com Inc.",       weight_x10 |-> 97,  value |-> 97000],
       [ticker |-> "JPM",   name |-> "JPMorgan Chase & Co.",  weight_x10 |-> 83,  value |-> 83000] >>

FixtureSectors ==
    << [sector |-> "Technology",             weight_x10 |-> 452],
       [sector |-> "Financials",             weight_x10 |-> 185],
       [sector |-> "Healthcare",             weight_x10 |-> 123],
       [sector |-> "Consumer Discretionary", weight_x10 |-> 107],
       [sector |-> "Industrials",            weight_x10 |-> 81],
       [sector |-> "Other",                  weight_x10 |-> 52] >>

get_portfolio_holdings(fund_name, clock) ==
    IF fund_name = None
      THEN Raise("TypeError", "fund_name must be a string, got NoneType")
    ELSE IF strip(fund_name) = ""
      THEN Raise("ValueError", "fund_name cannot be empty or contain only whitespace")
    ELSE Return(json_dumps(
           [ fund_name         |-> fund_name,
             total_value       |-> 1000000,
             holdings          |-> FixtureHoldings,
             sector_allocation |-> FixtureSectors,
             last_updated      |-> isoformat(clock) ]))

\* --------------------------------------------- reporting agent: payloads
\* A str built by an f-string, as the sequence of its pieces.
fstring(parts) == [text |-> "plain", chars |-> parts]

\* A payload without the recommendations section.
generate_mock_response_unadvised(clock) ==
    json_dumps(
      [ portfolio_summary |-> [fund_name |-> "Mock Fund", last_updated |-> isoformat(clock)],
        holdings_analysis |-> [top_holdings |-> <<>>],
        market_insights   |-> [news_alerts |-> <<>>],
        risk_assessment   |-> [overall_risk_level |-> "Medium", risk_score |-> 45] ])

\* The local fallback payload.
generate_mock_response(clock) ==
    json_dumps(
      [ portfolio_summary |->
          [ fund_name      |-> "Mock Fund",
            total_value    |-> 1000000,
            holdings_count |-> 5,
            last_updated   |-> isoformat(clock) ],
        holdings_analysis |->
          [ top_holdings |->
              << [ticker |-> "AAPL", weight_x10 |-> 152, value |-> 152000],
                 [ticker |-> "MSFT", weight_x10 |-> 128, value |-> 128000] >>,
            sector_allocation |->
              << [sector |-> "Technology", weight_x10 |-> 452],
                 [sector |-> "Financials", weight_x10 |-> 185] >> ],
        market_insights |->
          [ news_alerts |->
              << [ ticker     |-> "AAPL",
                   alert_type |-> "Earnings Report",
                   severity   |-> "Medium",
                   headline   |-> <<"Apple Inc. Reports Q4 Earnings Beat Expectations">>,
                   sentiment  |-> "Positive" ] >> ],
        risk_assessment |->
          [ overall_risk_level |-> "Medium",
            risk_score         |-> 45,
            key_findings       |->
              <<"Portfolio shows adequate diversification across holdings">> ],
        recommendations |->
          << "Consider diversifying portfolio to reduce concentration risk",
             "Review holdings with negative news sentiment and consider rebalancing" >> ])

\* bool(x) of a str or of None.
Truthy(x) == x # None /\ x # ""

\* ReportingAgent.generate_report; response is the outcome of the awaited
\* self.agent.generate_response(prompt).
generate_report(fund_name, response) ==
    IF ~Truthy(fund_name) \/ strip(fund_name) = ""
      THEN Raise("ValueError", <<"fund_name cannot be empty or contain only whitespace">>)
    ELSE IF response.status # "ok"
      THEN Raise("RuntimeError", <<"Failed to generate report: ">> \o response.message)
    ELSE Return([report |-> response.value])

\* ------------------------------------------------------ the orchestrator
\* str(e) of the json.JSONDecodeError raised for a str that is not JSON.
JSONDecodeError == "Expecting value: line 1 column 1 (char 0)"

\* What a collaborator name is bound to: the function of the repository, or a
\* replacement that returns a fixed value or raises.
Real == [kind |-> "real"]

Returns(v) == [kind |-> "returns", value |-> v]

Raises(msg) == [kind |-> "raises", message |-> msg]

\* The outcome of calling a name: real is the outcome of the repository's
\* function on the arguments of the call.
Invoke(binding, real) ==
    IF binding.kind = "real" THEN real
    ELSE IF binding.kind = "returns" THEN Return(binding.value)
    ELSE Raise("Exception", binding.message)

\* One entry of the calls a method made, in the order it made them.
Called(name, args) == [name |-> name, args |-> args]

\* What a method did: its outcome and the calls it made.
Did(outcome, invoked) == [outcome |-> outcome, invoked |-> invoked]

\* The validation without the strip(): only None and "" are refused.
BlankNameUnstripped(fund_name) == ~Truthy(fund_name)

\* if not fund_name or not fund_name.strip()
BlankName(fund_name) == ~Truthy(fund_name) \/ strip(fund_name) = ""

\* Only the holdings without a ticker field skipped: an empty ticker is kept.
extract_tickers_keeping_empty(holdings) ==
    LET present == SelectSeq(holdings, LAMBDA h : "ticker" \in DOMAIN h)
    IN  [i \in 1 .. Len(present) |-> present[i].ticker]

\* [holding.get("ticker") for holding in holdings if holding.get("ticker")]
RECURSIVE extract_tickers(_)
extract_tickers(holdings) ==
    IF holdings = <<>> THEN <<>>
    ELSE LET t == Get(Head(holdings), "ticker", None)
         IN  (IF Truthy(t) THEN <<t>> ELSE <<>>) \o extract_tickers(Tail(holdings))

\* json.dumps({"scan_timestamp": "", "alerts": []})
SentinelNews == json_dumps([scan_timestamp |-> <<>>, alerts |-> <<>>])

\* The news scanner called once for every ticker instead of once for the list.
news_stage_per_ticker(p, tk, clock) ==
    IF tk = <<>>
      THEN Did(Return(SentinelNews), <<>>)
      ELSE Did(Invoke(p.news, scan_market_news(tk, clock)),
               [i \in 1 .. Len(tk) |-> Called("scan_market_news", <<<<tk[i]>>>>)])

\* The news scanner called whatever the ticker list holds.
news_stage_always_scanning(p, tk, clock) ==
    Did(Invoke(p.news, scan_market_news(tk, clock)),
        <<Called("scan_market_news", <<tk>>)>>)

\* The news stage of scan_portfolio and of get_portfolio_risk_assessment.
news_stage(p, tk, clock) ==
    IF tk = <<>>
      THEN Did(Return(SentinelNews), <<>>)
      ELSE Did(Invoke(p.news, scan_market_news(tk, clock)),
               <<Called("scan_market_news", <<tk>>)>>)

\* The action items copied last one first.
action_items_of_reversed(risk_analysis) ==
    IF IsJson(risk_analysis)
      THEN LET items == Get(json_loads(risk_analysis), "action_items", <<>>)
           IN  [i \in 1 .. Len(items) |-> items[Len(items) + 1 - i]]
      ELSE <<>>

\* The except clause around json.loads(risk_analysis) in scan_portfolio.
action_items_of(risk_analysis) ==
    IF IsJson(risk_analysis)
      THEN Get(json_loads(risk_analysis), "action_items", <<>>)
      ELSE <<>>

\* The outer except clause of scan_portfolio: any failure of a stage is
\* re-raised as RuntimeError naming the fund and the cause.
scan_failed(fund_name, cause) ==
    Raise("RuntimeError",
          <<"Failed to scan portfolio for fund '", fund_name, "': ">> \o cause)

\* The stages of scan_portfolio after the news stage returned news_data.
scan_from_risk(p, fund_name, clock, pdata, ndata, c2) ==
    LET wrap(cause) == scan_failed(fund_name, cause)
        r  == Invoke(p.risk, analyze_risk_exposure(pdata, ndata, clock))
        c3 == Append(c2, Called("analyze_risk_exposure", <<pdata, ndata>>))
    IN  IF r.status # "ok" THEN Did(wrap(<<r.message>>), c3)
        ELSE
          LET g  == Invoke(p.report,
                           generate_report(fund_name, Return(generate_mock_response(clock))))
              c4 == Append(c3, Called("generate_report", <<fund_name>>))
          IN  IF g.status # "ok" THEN Did(wrap(g.message), c4)
              ELSE Did(Return([ fund_name    |-> fund_name,
                                report       |-> Get(g.value, "report", BlankStr),
                                action_items |-> action_items_of(r.value) ]),
                       c4)

scan_portfolio(p, fund_name, clock) ==
    LET wrap(cause) == scan_failed(fund_name, cause)
    IN
    IF BlankName(fund_name)
      THEN Did(Raise("ValueError",
                     <<"fund_name cannot be empty or contain only whitespace">>), <<>>)
    ELSE
      LET h  == Invoke(p.holdings, get_portfolio_holdings(fund_name, clock))
          c1 == <<Called("get_portfolio_holdings", <<fund_name>>)>>
      IN  IF h.status # "ok" THEN Did(wrap(<<h.message>>), c1)
          ELSE IF ~IsJson(h.value)
            THEN Did(wrap(<<"Failed to parse portfolio data: ", JSONDecodeError>>), c1)
          ELSE
            LET tk == extract_tickers(Get(json_loads(h.value), "holdings", <<>>))
                n  == news_stage(p, tk, clock)
                c2 == c1 \o n.invoked
            IN  IF n.outcome.status # "ok" THEN Did(wrap(<<n.outcome.message>>), c2)
                ELSE scan_from_risk(p, fund_name, clock, h.value, n.outcome.value, c2)

get_portfolio_summary(p, fund_name, clock) ==
    LET wrap(cause) ==
          Raise("RuntimeError",
                <<"Failed to generate portfolio summary for fund '", fund_name, "': ">>
                \o cause)
    IN
    IF BlankName(fund_name)
      THEN Did(Raise("ValueError",
                     <<"fund_name cannot be empty or contain only whitespace">>), <<>>)
    ELSE
      LET h  == Invoke(p.holdings, get_portfolio_holdings(fund_name, clock))
          c1 == <<Called("get_portfolio_holdings", <<fund_name>>)>>
      IN  IF h.status # "ok" THEN Did(wrap(<<h.message>>), c1)
          ELSE IF ~IsJson(h.value)
            THEN Did(wrap(<<"Failed to parse portfolio data for summary: ",
                            JSONDecodeError>>), c1)
          ELSE
            LET portfolio_json == json_loads(h.value)
            IN  Did(Return(
                      [ fund_name         |-> Get(portfolio_json, "fund_name", fund_name),
                        total_value       |-> Get(portfolio_json, "total_value", 0),
                        holdings_count    |-> Len(Get(portfolio_json, "holdings", <<>>)),
                        sector_allocation |-> Get(portfolio_json, "sector_allocation", <<>>),
                        last_updated      |-> Get(portfolio_json, "last_updated", <<>>) ]),
                    c1)

\* risk_json.get("exposure_metrics", {}): the default is a dict without keys.
EmptyDict == [k \in {} |-> None]

\* The level derived again from the score instead of copied.
risk_assessment_of_relevelled(fund_name, risk_json) ==
    [ fund_name          |-> fund_name,
      overall_risk_level |-> overall_risk_level(Get(risk_json, "risk_score", 0)),
      risk_score         |-> Get(risk_json, "risk_score", 0),
      key_findings       |-> Get(risk_json, "key_findings", <<>>),
      action_items       |-> Get(risk_json, "action_items", <<>>),
      exposure_metrics   |-> Get(risk_json, "exposure_metrics", EmptyDict),
      analysis_timestamp |-> Get(risk_json, "analysis_timestamp", <<>>) ]

\* The dict get_portfolio_risk_assessment returns for a parsed risk analysis.
risk_assessment_of(fund_name, risk_json) ==
    [ fund_name          |-> fund_name,
      overall_risk_level |-> Get(risk_json, "overall_risk_level", "Unknown"),
      risk_score         |-> Get(risk_json, "risk_score", 0),
      key_findings       |-> Get(risk_json, "key_findings", <<>>),
      action_items       |-> Get(risk_json, "action_items", <<>>),
      exposure_metrics   |-> Get(risk_json, "exposure_metrics", EmptyDict),
      analysis_timestamp |-> Get(risk_json, "analysis_timestamp", <<>>) ]

get_portfolio_risk_assessment(p, fund_name, clock) ==
    LET wrap(cause) ==
          Raise("RuntimeError",
                <<"Failed to generate risk assessment for fund '", fund_name, "': ">>
                \o cause)
    IN
    IF BlankName(fund_name)
      THEN Did(Raise("ValueError",
                     <<"fund_name cannot be empty or contain only whitespace">>), <<>>)
    ELSE
      LET h  == Invoke(p.holdings, get_portfolio_holdings(fund_name, clock))
          c1 == <<Called("get_portfolio_holdings", <<fund_name>>)>>
      IN  IF h.status # "ok" THEN Did(wrap(<<h.message>>), c1)
          ELSE IF ~IsJson(h.value)
            THEN Did(wrap(<<"Failed to parse portfolio data: ", JSONDecodeError>>), c1)
          ELSE
            LET tk == extract_tickers(Get(json_loads(h.value), "holdings", <<>>))
                n  == news_stage(p, tk, clock)
                c2 == c1 \o n.invoked
            IN  IF n.outcome.status # "ok" THEN Did(wrap(<<n.outcome.message>>), c2)
                ELSE
                  LET r  == Invoke(p.risk,
                                   analyze_risk_exposure(h.value, n.outcome.value, clock))
                      c3 == Append(c2, Called("analyze_risk_exposure",
                                              <<h.value, n.outcome.value>>))
                  IN  IF r.status # "ok" THEN Did(wrap(<<r.message>>), c3)
                      ELSE IF ~IsJson(r.value)
                        THEN Did(wrap(<<"Failed to parse risk analysis: ",
                                        JSONDecodeError>>), c3)
                      ELSE
                        Did(Return(risk_assessment_of(fund_name, json_loads(r.value))), c3)

\* ------------------------------------------- callers of the orchestrator
\* The fund names a caller passes: two names, an empty string, a
\* whitespace-only string and None.
FundNames == {"Fund A", "Fund B", "", " ", None}

\* The portfolio document of a replaced get_portfolio_holdings.
TestPortfolio(holdings) ==
    json_dumps([ fund_name         |-> "Test Fund",
                 holdings          |-> holdings,
                 sector_allocation |-> <<>>,
                 last_updated      |-> <<>> ])

HoldingsBindings ==
    { Real,
      Returns(json_dumps([fund_name |-> "Test Fund"])),
      Returns(TestPortfolio(<<>>)),
      Returns(TestPortfolio(<< [ticker |-> "AAPL", weight_x10 |-> 600],
                               [ticker |-> "MSFT", weight_x10 |-> 400] >>)),
      Returns(TestPortfolio(<< [ticker |-> "AAPL", weight_x10 |-> 500],
                               [name |-> "Cash"],
                               [ticker |-> "", name |-> "Unlisted"],
                               [ticker |-> "AAPL", weight_x10 |-> 100] >>)),
      Returns(TestPortfolio(<< [name |-> "Cash"] >>)),
      Returns(TestPortfolio(<< [ticker |-> " ", name |-> "Blank"] >>)),
      Returns(MalformedStr),
      Raises("holdings service unavailable") }

NewsBindings ==
    { Real,
      Returns(json_dumps(
        [ scan_timestamp |-> <<>>,
          alerts |-> << [ticker |-> "AAPL", sentiment |-> "Negative"],
                        [ticker |-> "AAPL", sentiment |-> "Negative"],
                        [ticker |-> "MSFT", sentiment |-> "Negative"] >> ])),
      Returns(MalformedStr),
      Raises("news feed unavailable") }

RiskBindings ==
    { Real,
      Returns(json_dumps(
        [ analysis_timestamp |-> <<>>,
          overall_risk_level |-> "High",
          risk_score         |-> 75,
          key_findings       |-> <<"Technology sector shows high volatility">>,
          action_items       |-> <<"Rebalance portfolio", "Hedge technology exposure">>,
          exposure_metrics   |-> [concentration_risk |-> 20] ])),
      Returns(json_dumps([risk_score |-> 20])),
      Returns(MalformedStr),
      Raises("risk engine unavailable") }

ReportBindings ==
    { Real,
      Returns([report |-> fstring(<<"Test report">>)]),
      Returns([status |-> "queued"]),
      Raises(<<"Failed to generate report: ", "backend unavailable">>) }

InitOrch ==
    /\ patches \in [ holdings : HoldingsBindings, news : NewsBindings,
                     risk : RiskBindings, report : ReportBindings ]
    /\ orch_call = NoCall
    /\ now = 0
    /\ ToolsIdle
    /\ BatchIdle
    /\ AgentIdle

\* One call of a method of the orchestrator; the clock is read during the call.
OrchCall(op, fund_name, t, did) ==
    /\ now' = t
    /\ orch_call' =
         [ called    |-> TRUE,
           op        |-> op,
           fund_name |-> fund_name,
           outcome   |-> did.outcome,
           invoked   |-> did.invoked ]
    /\ UNCHANGED <<patches, tool_vars, batch_vars, agent_vars>>

ScanPortfolio ==
    \E f \in FundNames, t \in now .. Min(now + 1, MaxClock) :
      OrchCall("scan_portfolio", f, t, scan_portfolio(patches, f, t))

GetPortfolioSummary ==
    \E f \in FundNames, t \in now .. Min(now + 1, MaxClock) :
      OrchCall("get_portfolio_summary", f, t, get_portfolio_summary(patches, f, t))

GetPortfolioRiskAssessment ==
    \E f \in FundNames, t \in now .. Min(now + 1, MaxClock) :
      OrchCall("get_portfolio_risk_assessment", f, t,
               get_portfolio_risk_assessment(patches, f, t))

NextOrch == ScanPortfolio \/ GetPortfolioSummary \/ GetPortfolioRiskAssessment

SpecOrch == InitOrch /\ [][NextOrch]_vars

\* ----------------------------------------------- batch_process_portfolios
\* The value None where a str is expected (a report without content).
NoReport == [text |-> "<None>"]

\* A fund name with a character outside ASCII, such as a currency sign.
EuroFund == "Fund <U+20AC>"

\* The three print() calls that follow a scan: the header line carries the
\* fund name and must be encodable for standard output, and len() is taken of
\* the report and of the action items.
display(scan_result, fund_name, encoding) ==
    IF fund_name = EuroFund /\ encoding = "ascii"
      THEN Raise("UnicodeEncodeError",
                 <<"'ascii' codec can't encode character '\\u20ac'">>)
    ELSE IF scan_result.report = NoReport
      THEN Raise("TypeError", <<"object of type 'NoneType' has no len()">>)
    ELSE Return(None)

\* The entry appended by the except clause of the loop.
error_result(fund_name, e) ==
    [ fund_name    |-> fund_name,
      report       |-> fstring(<<"Error: ">> \o e.message),
      action_items |-> <<>> ]

\* One iteration of the loop: res is the results list so far, s the outcome of
\* the awaited orchestrator.scan_portfolio(fund_name).
process_fund(res, fund_name, s, encoding) ==
    IF s.status # "ok" THEN Append(res, error_result(fund_name, s))
    ELSE LET shown == display(s.value, fund_name, encoding)
         IN  IF shown.status = "ok" THEN Append(res, s.value)
             ELSE Append(Append(res, s.value), error_result(fund_name, shown))

\* ------------------------------------ callers of batch_process_portfolios
BatchFundNames == {"Fund A", EuroFund, " "}

RealPatches == [holdings |-> Real, news |-> Real, risk |-> Real, report |-> Real]

\* The bindings during one scan of a batch: the repository's functions; a
\* risk engine replaced by one with action items; a failing holdings
\* provider; a reporting agent that hands on a backend answer without content.
BatchPatches ==
    { RealPatches,
      [RealPatches EXCEPT !.risk =
         Returns(json_dumps([ risk_score   |-> 75,
                              action_items |-> <<"Rebalance portfolio">> ]))],
      [RealPatches EXCEPT !.holdings = Raises("holdings service unavailable")],
      [RealPatches EXCEPT !.report = Returns([report |-> NoReport])] }

InitBatch ==
    /\ \E n \in 0 .. MaxFunds :
         /\ fund_names \in [1 .. n -> BatchFundNames]
         /\ scan_patches \in [1 .. n -> BatchPatches]
    /\ console \in {"utf-8", "ascii"}
    /\ batch_pc = "start"
    /\ results = <<>>
    /\ scans = <<>>
    /\ batch_out = NoCall
    /\ now = 0
    /\ ToolsIdle
    /\ OrchIdle
    /\ AgentIdle

\* The validation of the argument and the construction of the orchestrator,
\* which raises when the reporting agent cannot be created.
BatchStart ==
    /\ batch_pc = "start"
    /\ IF fund_names = <<>>
         THEN /\ batch_out' = Raise("ValueError", <<"fund_names list cannot be empty">>)
              /\ batch_pc' = "done"
       ELSE IF \E i \in 1 .. Len(fund_names) : BlankName(fund_names[i])
         THEN /\ batch_out' =
                   Raise("ValueError",
                         <<"Fund name in list cannot be empty or contain only whitespace">>)
              /\ batch_pc' = "done"
       ELSE \E built \in BOOLEAN :
              IF built
                THEN /\ batch_pc' = "loop"
                     /\ batch_out' = batch_out
                ELSE /\ batch_pc' = "done"
                     /\ batch_out' =
                          Raise("RuntimeError",
                                << "Error in batch processing: ",
                                   "Failed to initialize PortfolioScanOrchestrator: ",
                                   "Failed to initialize ReportingAgent" >>)
    /\ UNCHANGED <<fund_names, scan_patches, console, results, scans, now, tool_vars, orch_vars, agent_vars>>

\* One iteration of the for loop.
BatchScan ==
    /\ batch_pc = "loop"
    /\ Len(scans) < Len(fund_names)
    /\ LET i   == Len(scans) + 1
           did == scan_portfolio(scan_patches[i], fund_names[i], now)
       IN  /\ scans' = Append(scans, did)
           /\ results' = process_fund(results, fund_names[i], did.outcome, console)
    /\ UNCHANGED <<fund_names, scan_patches, console, batch_pc, batch_out, now,
                   tool_vars, orch_vars, agent_vars>>

\* return results
BatchReturn ==
    /\ batch_pc = "loop"
    /\ Len(scans) = Len(fund_names)
    /\ batch_pc' = "done"
    /\ batch_out' = Return(results)
    /\ UNCHANGED <<fund_names, scan_patches, console, results, scans, now,
                   tool_vars, orch_vars, agent_vars>>

NextBatch == BatchStart \/ BatchScan \/ BatchReturn

SpecBatch == InitBatch /\ [][NextBatch]_vars

\* ------------------------------------- reporting agent: backend selection
\* An attribute the Settings class does not define: reading it raises
\* AttributeError.
Absent == "<absent>"

\* self.agent = None; a created agent is [id |-> n], n the number the
\* service gave it.
NoAgent == [id |-> 0]

\* The attributes set by __init__ before a client is initialised.
NewAgent(use_azure) ==
    [ use_azure     |-> use_azure,
      client        |-> None,
      agent         |-> NoAgent,
      openai_client |-> None,
      tools         |-> {} ]

\* _init_openai_client; openai_ok tells whether openai.OpenAI(...) returns.
init_openai_client(self, cfg, openai_ok) ==
    IF ~Truthy(cfg.OPENAI_API_KEY) THEN self
    ELSE IF openai_ok THEN [self EXCEPT !.openai_client = "openai.OpenAI"]
    ELSE self

\* The secondary client created as well when the primary client is.
init_azure_client_both(self, cfg, azure_ok, openai_ok) ==
    LET off == [self EXCEPT !.use_azure = FALSE]
    IN  IF cfg.AZURE_AI_PROJECT_CONNECTION_STRING = Absent
          THEN init_openai_client(off, cfg, openai_ok)
        ELSE IF ~Truthy(cfg.AZURE_AI_PROJECT_CONNECTION_STRING) \/ ~azure_ok
          THEN init_openai_client(off, cfg, openai_ok)
        ELSE init_openai_client([self EXCEPT !.client = "AIProjectClient"], cfg, openai_ok)

\* _init_azure_client; azure_ok tells whether
\* AIProjectClient.from_connection_string(...) returns.
init_azure_client(self, cfg, azure_ok, openai_ok) ==
    LET off      == [self EXCEPT !.use_azure = FALSE]
        fallback == IF cfg.OPENAI_AVAILABLE THEN init_openai_client(off, cfg, openai_ok)
                                            ELSE off
    IN  IF cfg.AZURE_AI_PROJECT_CONNECTION_STRING = Absent THEN fallback
        ELSE IF ~Truthy(cfg.AZURE_AI_PROJECT_CONNECTION_STRING) THEN fallback
        ELSE IF azure_ok THEN [self EXCEPT !.client = "AIProjectClient"]
        ELSE fallback

\* AzureReportingAgent.__init__
AzureReportingAgent(cfg, use_azure, azure_ok, openai_ok) ==
    LET self == NewAgent(use_azure /\ cfg.AZURE_AVAILABLE)
    IN  IF self.use_azure THEN init_azure_client(self, cfg, azure_ok, openai_ok)
        ELSE IF cfg.OPENAI_AVAILABLE THEN init_openai_client(self, cfg, openai_ok)
        ELSE self

ToolNames == {"get_portfolio_holdings", "scan_market_news", "analyze_risk_exposure"}

\* Registering a tool also switches the agent to the local fallback.
register_tool_reselecting(self, name, func_callable) ==
    [ self    |-> [self EXCEPT !.tools = @ \cup {name}, !.use_azure = FALSE,
                               !.openai_client = None],
      outcome |-> Return(None) ]

\* register_tool: the agent after the call and the outcome of the call;
\* func_callable tells whether callable(func).
register_tool(self, name, func_callable) ==
    IF BlankName(name)
      THEN [ self    |-> self,
             outcome |-> Raise("ValueError",
                               <<"Tool name cannot be empty or contain only whitespace">>) ]
    ELSE IF ~func_callable
      THEN [ self    |-> self,
             outcome |-> Raise("ValueError",
                               <<"Tool function must be callable, got ", "str">>) ]
    ELSE [ self    |-> [self EXCEPT !.tools = @ \cup {name}],
           outcome |-> Return(None) ]

\* create_reporting_agent: the outcome is the agent, or the RuntimeError that
\* wraps whatever the body raised.
create_reporting_agent(cfg, azure_ok, openai_ok) ==
    IF cfg.AZURE_AVAILABLE /\ cfg.AZURE_AI_PROJECT_CONNECTION_STRING = Absent
      THEN Raise("RuntimeError",
                 << "Failed to create Financial Reporting Agent: ",
                    "type object 'Settings' has no attribute 'AZURE_AI_PROJECT_CONNECTION_STRING'" >>)
    ELSE
      LET use_azure ==
            /\ cfg.AZURE_AVAILABLE
            /\ Truthy(cfg.AZURE_AI_PROJECT_CONNECTION_STRING)
            /\ Truthy(strip(cfg.AZURE_AI_PROJECT_CONNECTION_STRING))
          agent == AzureReportingAgent(cfg, use_azure, azure_ok, openai_ok)
          one   == register_tool(agent, "get_portfolio_holdings", TRUE).self
          two   == register_tool(one, "scan_market_news", TRUE).self
          three == register_tool(two, "analyze_risk_exposure", TRUE).self
      IN  Return(three)

\* ------------------------------------ reporting agent: generate_response
\* The status values of a remote run; the loop of _generate_azure_response
\* ends on the last three.
RunStatuses == {"queued", "in_progress", "completed", "failed", "cancelled"}

TerminalStatuses == {"completed", "failed", "cancelled"}

\* A failed run treated like a completed one.
run_failed_never(status) == FALSE

\* if run.status == "failed":
run_failed(status) == status = "failed"

\* run.last_error of a failed run, as the provider reports it.
LastError == "{'code': 'server_error', 'message': 'Sorry, something went wrong.'}"

\* The content of an answer of a backend.
BackendReport(backend) == fstring(<<backend, " report">>)

\* The remote agent service before any request: no agent was created, no run
\* was created against any agent.
NoService == [agents |-> 0, runs |-> {}]

\* generate_response is not running and has not run.
GenIdle == [pc |-> "idle", contacted |-> {}]

\* generate_response is suspended in _generate_azure_response at the await
\* named pc; run is the status of the remote run, contacted the operations of
\* a backend the call has requested so far.
GenAt(pc, prompt, run, contacted) ==
    [pc |-> pc, prompt |-> prompt, run |-> run, contacted |-> contacted]

\* generate_response is over; run is the last status the call saw of its
\* remote run, error what the backend raised during the call, if it raised.
GenDone(prompt, run, contacted, error, outcome) ==
    [ pc        |-> "done",
      prompt    |-> prompt,
      run       |-> run,
      contacted |-> contacted,
      error     |-> error,
      outcome   |-> outcome ]

\* No except clause: what the backend raised leaves generate_response.
on_backend_error_raising(e, clock) == e

\* The except clause of generate_response: whatever the backend raised, the
\* local fallback payload is returned.
on_backend_error(e, clock) == Return(generate_mock_response(clock))

\* A backend operation req raised e while generate_response was at g.
Recovered(g, req, e) ==
    GenDone(g.prompt, g.run, g.contacted \cup req, e, on_backend_error(e, now))

\* The one caller of the sequential specification, the two of the concurrent.
SoleCaller == {"caller 1"}

ConcurrentCallers == {"caller 1", "caller 2"}

ConfigSpace ==
    [ AZURE_AVAILABLE  : BOOLEAN,
      OPENAI_AVAILABLE : BOOLEAN,
      AZURE_AI_PROJECT_CONNECTION_STRING : {Absent, "", " ", "conn"},
      OPENAI_API_KEY : {"", "sk-test"},
      AZURE_OPENAI_CHAT_MODEL_ID : {Absent, "gpt-4o"} ]

InitAgent ==
    /\ config \in ConfigSpace
    /\ reporter = [state |-> "none"]
    /\ gen = [c \in SoleCaller |-> GenIdle]
    /\ service = NoService
    /\ now = 0
    /\ ToolsIdle
    /\ OrchIdle
    /\ BatchIdle

\* The agent is constructed: by create_reporting_agent(), as ReportingAgent
\* does, or directly with the use_azure argument.
Construct ==
    /\ reporter.state = "none"
    /\ \E azure_ok \in BOOLEAN, openai_ok \in BOOLEAN :
         \/ LET made == create_reporting_agent(config, azure_ok, openai_ok)
            IN  reporter' =
                  IF made.status = "ok"
                    THEN [state |-> "built", self |-> made.value]
                    ELSE [state |-> "failed", error |-> made]
         \/ \E use_azure \in BOOLEAN :
              reporter' =
                [ state |-> "built",
                  self  |-> AzureReportingAgent(config, use_azure, azure_ok, openai_ok) ]
    /\ UNCHANGED <<config, gen, service, now, tool_vars, orch_vars, batch_vars>>

\* The tool names a caller registers, and whether the function is callable.
RegisteredNames == {"mock_tool", "scan_market_news", " "}

\* A call of register_tool on the constructed agent, between calls of
\* generate_response or during one.
RegisterTool ==
    /\ reporter.state = "built"
    /\ \E name \in RegisteredNames, func_callable \in BOOLEAN :
         reporter' =
           [reporter EXCEPT !.self = register_tool(@, name, func_callable).self]
    /\ UNCHANGED <<config, gen, service, now, tool_vars, orch_vars, batch_vars>>

Prompts == {"Generate a comprehensive financial report", "", " "}

\* The remote agent created again for every call.
needs_agent_always(self) == TRUE

\* if not self.agent: the remote agent is created when none is kept.
needs_agent(self) == self.agent = NoAgent

\* generate_response up to its first await, or to its end on the secondary
\* backend and on the local fallback.  On the primary backend the test
\* "if not self.agent" is made here, before the first suspension.
GenerateResponse ==
    /\ reporter.state = "built"
    /\ \E c \in DOMAIN gen, prompt \in Prompts :
         /\ gen[c].pc \in {"idle", "done"}
         /\ IF BlankName(prompt)
              THEN gen' = [gen EXCEPT ![c] = GenDone(prompt, None, {}, NoCall,
                     Raise("ValueError",
                           <<"Prompt cannot be empty or contain only whitespace">>))]
            ELSE IF reporter.self.use_azure /\ reporter.self.client # None
              THEN gen' = [gen EXCEPT ![c] =
                     GenAt(IF needs_agent(reporter.self) THEN "create_agent"
                                                       ELSE "create_thread",
                           prompt, None, {})]
            ELSE IF reporter.self.openai_client # None
              THEN \E answer \in { Return(BackendReport("OpenAI")), Return(NoReport),
                                   Raise("APIError", <<"Connection error.">>) } :
                     gen' = [gen EXCEPT ![c] =
                       IF answer.status = "ok"
                         THEN GenDone(prompt, None, {"chat.completions.create"},
                                      NoCall, answer)
                         ELSE GenDone(prompt, None, {"chat.completions.create"}, answer,
                                      on_backend_error(answer, now))]
            ELSE gen' = [gen EXCEPT ![c] =
                   GenDone(prompt, None, {}, NoCall, Return(generate_mock_response(now)))]
    /\ UNCHANGED <<config, reporter, service, now, tool_vars, orch_vars, batch_vars>>

\* What a request to the primary backend may raise.
ServiceError == Raise("HttpResponseError", <<"Service request failed.">>)

\* await self._create_azure_agent(): the model name is read from Settings,
\* then the agent is requested; when the request returns the service has
\* created one more agent, which is kept in self.agent.
AzureCreateAgent ==
    /\ \E c \in DOMAIN gen :
         /\ gen[c].pc = "create_agent"
         /\ IF config.AZURE_OPENAI_CHAT_MODEL_ID = Absent
              THEN /\ gen' = [gen EXCEPT ![c] = Recovered(gen[c], {},
                        Raise("AttributeError",
                              <<"type object 'Settings' has no attribute 'AZURE_OPENAI_CHAT_MODEL_ID'">>))]
                   /\ UNCHANGED <<reporter, service>>
              ELSE \/ /\ service' = [service EXCEPT !.agents = @ + 1]
                      /\ reporter' =
                           [reporter EXCEPT !.self.agent = [id |-> service.agents + 1]]
                      /\ gen' = [gen EXCEPT ![c] =
                           GenAt("create_thread", gen[c].prompt, None,
                                 gen[c].contacted \cup {"create_agent"})]
                   \/ /\ gen' = [gen EXCEPT ![c] =
                           Recovered(gen[c], {"create_agent"}, ServiceError)]
                      /\ UNCHANGED <<reporter, service>>
    /\ UNCHANGED <<config, now, tool_vars, orch_vars, batch_vars>>

\* thread = await self.client.agents.create_thread()
AzureCreateThread ==
    /\ \E c \in DOMAIN gen :
         /\ gen[c].pc = "create_thread"
         /\ \/ gen' = [gen EXCEPT ![c] =
                 GenAt("create_message", gen[c].prompt, None,
                       gen[c].contacted \cup {"create_thread"})]
            \/ gen' = [gen EXCEPT ![c] = Recovered(gen[c], {"create_thread"}, ServiceError)]
    /\ UNCHANGED <<config, reporter, service, now, tool_vars, orch_vars, batch_vars>>

\* await self.client.agents.create_message(...)
AzureCreateMessage ==
    /\ \E c \in DOMAIN gen :
         /\ gen[c].pc = "create_message"
         /\ \/ gen' = [gen EXCEPT ![c] =
                 GenAt("create_run", gen[c].prompt, None,
                       gen[c].contacted \cup {"create_message"})]
            \/ gen' = [gen EXCEPT ![c] = Recovered(gen[c], {"create_message"}, ServiceError)]
    /\ UNCHANGED <<config, reporter, service, now, tool_vars, orch_vars, batch_vars>>

\* run = await self.client.agents.create_run(..., agent_id=self.agent.id):
\* the run is created against the agent self.agent names at this point.
AzureCreateRun ==
    /\ \E c \in DOMAIN gen :
         /\ gen[c].pc = "create_run"
         /\ \/ \E status \in RunStatuses :
                 /\ gen' = [gen EXCEPT ![c] =
                      GenAt("poll", gen[c].prompt, status,
                            gen[c].contacted \cup {"create_run"})]
                 /\ service' = [service EXCEPT !.runs = @ \cup {reporter.self.agent.id}]
            \/ /\ gen' = [gen EXCEPT ![c] = Recovered(gen[c], {"create_run"}, ServiceError)]
               /\ service' = service
    /\ UNCHANGED <<config, reporter, now, tool_vars, orch_vars, batch_vars>>

\* One turn of the while loop: asyncio.sleep(1), then get_run.
AzurePoll ==
    /\ \E c \in DOMAIN gen :
         /\ gen[c].pc = "poll"
         /\ gen[c].run \notin TerminalStatuses
         /\ \/ \E status \in RunStatuses :
                 gen' = [gen EXCEPT ![c] =
                   GenAt("poll", gen[c].prompt, status, gen[c].contacted \cup {"get_run"})]
            \/ gen' = [gen EXCEPT ![c] = Recovered(gen[c], {"get_run"}, ServiceError)]
    /\ UNCHANGED <<config, reporter, service, now, tool_vars, orch_vars, batch_vars>>

\* After the loop: a failed run raises; otherwise the messages are listed and
\* the content of the first assistant message is returned ("" when it has no
\* content, the local fallback payload when there is no assistant message).
AzureCollect ==
    /\ \E c \in DOMAIN gen :
         /\ gen[c].pc = "poll"
         /\ gen[c].run \in TerminalStatuses
         /\ IF run_failed(gen[c].run)
              THEN gen' = [gen EXCEPT ![c] = Recovered(gen[c], {},
                     Raise("RuntimeError", <<"Azure agent run failed: ", LastError>>))]
              ELSE \/ \E content \in { BackendReport("Azure"), BlankStr,
                                       generate_mock_response(now) } :
                        gen' = [gen EXCEPT ![c] =
                          GenDone(gen[c].prompt, gen[c].run,
                                  gen[c].contacted \cup {"list_messages"},
                                  NoCall, Return(content))]
                   \/ gen' = [gen EXCEPT ![c] =
                        Recovered(gen[c], {"list_messages"}, ServiceError)]
    /\ UNCHANGED <<config, reporter, service, now, tool_vars, orch_vars, batch_vars>>

\* The steps of _generate_azure_response.
AzureSteps ==
    \/ AzureCreateAgent
    \/ AzureCreateThread
    \/ AzureCreateMessage
    \/ AzureCreateRun
    \/ AzurePoll
    \/ AzureCollect

NextAgent ==
    \/ Construct
    \/ RegisterTool
    \/ GenerateResponse
    \/ AzureCreateAgent
    \/ AzureCreateThread
    \/ AzureCreateMessage
    \/ AzureCreateRun
    \/ AzurePoll
    \/ AzureCollect

SpecAgent == InitAgent /\ [][NextAgent]_vars

\* The event loop resumes a suspended generate_response whenever the request
\* it awaits has returned or raised.
SpecAgentFair ==
    /\ SpecAgent
    /\ WF_vars(AzureCreateAgent)
    /\ WF_vars(AzureCreateThread)
    /\ WF_vars(AzureCreateMessage)
    /\ WF_vars(AzureCreateRun)
    /\ WF_vars(AzurePoll)
    /\ WF_vars(AzureCollect)

\* One agent, constructed with the primary backend selected, and two callers
\* whose generate_response calls run on one event loop.
InitConcurrent ==
    /\ config \in { cfg \in ConfigSpace :
                      /\ cfg.AZURE_AVAILABLE
                      /\ cfg.AZURE_AI_PROJECT_CONNECTION_STRING = "conn" }
    /\ reporter = [ state |-> "built",
                    self  |-> create_reporting_agent(config, TRUE, TRUE).value ]
    /\ gen = [c \in ConcurrentCallers |-> GenIdle]
    /\ service = NoService
    /\ now = 0
    /\ ToolsIdle
    /\ OrchIdle
    /\ BatchIdle

NextConcurrent ==
    \/ GenerateResponse
    \/ AzureCreateAgent
    \/ AzureCreateThread
    \/ AzureCreateMessage
    \/ AzureCreateRun
    \/ AzurePoll
    \/ AzureCollect

SpecConcurrent == InitConcurrent /\ [][NextConcurrent]_vars

\* ---------------------------------- properties of analyze_risk_exposure
\* The latest call was given two JSON documents.
RiskArgsWellFormed ==
    /\ risk_call.called
    /\ risk_call.portfolio_data.text = "json"
    /\ risk_call.news_data.text = "json"

RiskOk == risk_call.called /\ risk_call.outcome.status = "ok"

\* The RiskAssessment the latest call returned.
Assessment == risk_call.outcome.value.doc

\* The holdings and alerts lists the latest call was given.
ArgHoldings ==
    LET d == risk_call.portfolio_data.doc
    IN  IF "holdings" \in DOMAIN d THEN d.holdings ELSE <<>>

ArgAlerts ==
    LET d == risk_call.news_data.doc
    IN  IF "alerts" \in DOMAIN d THEN d.alerts ELSE <<>>

NumWith(s) ==
    Cardinality({i \in 1 .. Len(ArgAlerts) :
                   /\ "sentiment" \in DOMAIN ArgAlerts[i]
                   /\ ArgAlerts[i].sentiment = s})

NumOther == Len(ArgAlerts) - NumWith("Negative") - NumWith("Positive")

Clamp(lo, hi, x) == IF x < lo THEN lo ELSE IF x > hi THEN hi ELSE x

LevelRank(l) ==
    CASE l = "Low" -> 0 [] l = "Medium" -> 1 [] l = "High" -> 2 [] l = "Critical" -> 3

\* C1: for every holdings list and every alert list the call succeeds and the
\* risk_score it returns is an integer in [0,100].
C1_ScoreInRange ==
    RiskArgsWellFormed => (RiskOk /\ Assessment.risk_score \in 0 .. 100)

C1_Witness ==
    /\ RiskOk
    /\ Len(ArgHoldings) = MaxHoldings
    /\ NumWith("Negative") >= 3
    /\ NumOther >= 1

\* C2: risk_score = clamp(0,100, 30 + clamp(0,20,(h-5)*2) + clamp(0,30,10n)
\* - clamp(0,15,5p)) with h the holdings count and n, p the numbers of Negative
\* and Positive alerts; Neutral alerts and alerts without sentiment do not
\* enter the score.
C2_ScoreFormula ==
    RiskArgsWellFormed =>
      /\ RiskOk
      /\ Assessment.risk_score =
           Clamp(0, 100, 30 + Clamp(0, 20, (Len(ArgHoldings) - 5) * 2)
                            + Clamp(0, 30, 10 * NumWith("Negative"))
                            - Clamp(0, 15, 5 * NumWith("Positive")))

C2_Witness ==
    /\ RiskOk
    /\ Len(ArgHoldings) > 5
    /\ NumWith("Negative") >= 1
    /\ NumWith("Positive") >= 1
    /\ NumWith("Neutral") >= 1
    /\ NumOther > NumWith("Neutral")

\* C3: overall_risk_level is Low iff score < 25, Medium iff 25 <= score < 50,
\* High iff 50 <= score < 75, Critical iff score >= 75, and no higher score
\* is given a lower level.
C3_LevelStep ==
    RiskOk =>
      LET s == Assessment.risk_score
          l == Assessment.overall_risk_level
      IN  /\ l \in {"Low", "Medium", "High", "Critical"}
          /\ (l = "Low") <=> (s < 25)
          /\ (l = "Medium") <=> (25 <= s /\ s < 50)
          /\ (l = "High") <=> (50 <= s /\ s < 75)
          /\ (l = "Critical") <=> (s >= 75)
          /\ \A s2 \in s .. 100 :
                LevelRank(overall_risk_level(s2)) >= LevelRank(l)

C3_Witness ==
    /\ RiskOk
    /\ Assessment.risk_score = 75
    /\ Assessment.overall_risk_level = "Critical"

\* What a RiskAssessment says once its timestamp is set aside.
Verdict(a) ==
    <<a.risk_score, a.overall_risk_level, a.key_findings, a.action_items>>

C5_ThreeFindings ==
    RiskOk =>
      LET kf == Assessment.key_findings
          h  == Len(ArgHoldings)
          n  == NumWith("Negative")
          p  == NumWith("Positive")
          s  == Assessment.risk_score
      IN  /\ Len(kf) = 3
          /\ kf[1] = CASE h < 5  -> "Portfolio shows low diversification with limited number of holdings"
                        [] h > 15 -> "Portfolio may be over-diversified, potentially diluting returns"
                        [] OTHER  -> "Portfolio shows adequate diversification across holdings"
          /\ kf[2] = CASE n > p -> "Negative news sentiment outweighs positive sentiment for portfolio holdings"
                        [] p > n -> "Positive news sentiment outweighs negative sentiment for portfolio holdings"
                        [] OTHER -> "Neutral news sentiment balance for portfolio holdings"
          /\ kf[3] = CASE s > 70 -> "High risk exposure detected, immediate attention recommended"
                        [] s > 40 -> "Moderate risk exposure detected, monitoring recommended"
                        [] OTHER  -> "Low risk exposure detected, portfolio appears well-balanced"

C5_Witness ==
    /\ RiskOk
    /\ Len(ArgHoldings) > 15
    /\ NumWith("Negative") = NumWith("Positive")
    /\ NumWith("Negative") >= 1
    /\ Assessment.risk_score > 40
    /\ Len(Assessment.key_findings) = 3

ItemDiversify == "Consider diversifying portfolio to reduce concentration risk"

ItemReview == "Review holdings with negative news sentiment and consider rebalancing"

ItemMitigate == "Implement risk mitigation strategies for high-risk holdings"

ItemStopLoss == "Consider setting up stop-loss orders for volatile positions"

ItemGrowth == "Current risk level is low, consider opportunities for strategic growth"

Contains(seq, x) == \E i \in 1 .. Len(seq) : seq[i] = x

\* C6: action_items is, in this order, one item iff concentration_risk > 10,
\* one item iff the negative alert count > 2, two items iff risk_score > 50
\* and one item iff risk_score < 30; the guards are independent.
C6_ActionItems ==
    RiskOk =>
      LET c == Assessment.exposure_metrics.concentration_risk
          n == NumWith("Negative")
          s == Assessment.risk_score
      IN  Assessment.action_items =
            (IF c > 10 THEN <<ItemDiversify>> ELSE <<>>)
            \o (IF n > 2 THEN <<ItemReview>> ELSE <<>>)
            \o (IF s > 50 THEN <<ItemMitigate, ItemStopLoss>> ELSE <<>>)
            \o (IF s < 30 THEN <<ItemGrowth>> ELSE <<>>)

C6_Witness ==
    /\ RiskOk
    /\ Assessment.exposure_metrics.concentration_risk > 10
    /\ NumWith("Negative") > 2
    /\ Assessment.risk_score > 50
    /\ Len(Assessment.action_items) = 4

\* C7: a single holding with three Negative alerts and no Positive alert
\* gives risk_score >= 50, a level of High or Critical and the
\* risk-mitigation action item.
C7_ConcentrationScenario ==
    (RiskOk /\ Len(ArgHoldings) = 1 /\ NumWith("Negative") = 3
            /\ NumWith("Positive") = 0) =>
      /\ Assessment.risk_score >= 50
      /\ Assessment.overall_risk_level \in {"High", "Critical"}
      /\ Contains(Assessment.action_items, ItemMitigate)

C7_Witness ==
    /\ RiskOk
    /\ Len(ArgHoldings) = 1
    /\ Len(ArgAlerts) = 3
    /\ NumWith("Negative") = 3
    /\ Assessment.risk_score = 60

\* C8: eight holdings with three Positive alerts and no Negative alert give
\* risk_score < 50, a level of Low or Medium and the strategic-growth action
\* item.
C8_DiversificationScenario ==
    (RiskOk /\ Len(ArgHoldings) = 8 /\ NumWith("Positive") = 3
            /\ NumWith("Negative") = 0) =>
      /\ Assessment.risk_score < 50
      /\ Assessment.overall_risk_level \in {"Low", "Medium"}
      /\ Contains(Assessment.action_items, ItemGrowth)

C8_Witness ==
    /\ RiskOk
    /\ Len(ArgHoldings) = 8
    /\ Len(ArgAlerts) = 3
    /\ NumWith("Positive") = 3
    /\ Assessment.risk_score = 21

\* --------------------------------------- properties of scan_market_news
\* The latest call was given a non-empty list of non-blank strings.
ScanArgsValid ==
    /\ scan_call.called
    /\ scan_call.tickers # <<>>
    /\ \A i \in 1 .. Len(scan_call.tickers) : scan_call.tickers[i] \notin {"", " "}

ScanOk == scan_call.called /\ scan_call.outcome.status = "ok"

\* The alerts the latest call returned.
ScanAlerts == scan_call.outcome.value.doc.alerts

Occurrences(seq, x) == Cardinality({i \in 1 .. Len(seq) : seq[i] = x})

AlertsOf(t) == Cardinality({j \in 1 .. Len(ScanAlerts) : ScanAlerts[j].ticker = t})

\* What a scan of the ticker alone returns.
AloneAlerts(t) == scan_market_news(<<t>>, 0).value.doc.alerts

\* C9: a scan of a valid list succeeds with at least as many alerts as the
\* list has entries; every requested ticker is the ticker of some alert; a
\* ticker listed k times has k times the alerts it has when scanned alone.
C9_EveryTickerAlerted ==
    ScanArgsValid =>
      LET tk == scan_call.tickers
      IN  /\ ScanOk
          /\ Len(ScanAlerts) >= Len(tk)
          /\ \A i \in 1 .. Len(tk) :
                /\ \E j \in 1 .. Len(ScanAlerts) : ScanAlerts[j].ticker = tk[i]
                /\ AlertsOf(tk[i]) = Occurrences(tk, tk[i]) * Len(AloneAlerts(tk[i]))

C9_Witness ==
    /\ ScanOk
    /\ Len(scan_call.tickers) = 3
    /\ Occurrences(scan_call.tickers, "MSFT") = 2
    /\ AlertsOf("MSFT") = 4
    /\ Occurrences(scan_call.tickers, "XYZ") = 1

CannedTickers == {"AAPL", "MSFT", "GOOGL", "AMZN", "JPM"}

\* The number of alerts the list positions before position i + 1 contribute.
RECURSIVE AlertsBefore(_, _)
AlertsBefore(tk, i) ==
    IF i = 0 THEN 0 ELSE AlertsBefore(tk, i - 1) + Len(AloneAlerts(tk[i]))

\* C10: the alerts come in input ticker order, those of one list position
\* next to each other: position i owns the block after the blocks of the
\* positions before it, every alert of the block carries the ticker of
\* position i, and a ticker outside the table owns exactly one alert, the
\* generic Neutral / Low / Market Movement one.
C10_InputOrder ==
    ScanArgsValid =>
      LET tk == scan_call.tickers
      IN  /\ ScanOk
          /\ Len(ScanAlerts) = AlertsBefore(tk, Len(tk))
          /\ \A i \in 1 .. Len(tk) :
                /\ AlertsBefore(tk, i) > AlertsBefore(tk, i - 1)
                /\ \A j \in AlertsBefore(tk, i - 1) + 1 .. AlertsBefore(tk, i) :
                      ScanAlerts[j].ticker = tk[i]
                /\ tk[i] \notin CannedTickers =>
                      /\ AlertsBefore(tk, i) = AlertsBefore(tk, i - 1) + 1
                      /\ ScanAlerts[AlertsBefore(tk, i)].sentiment = "Neutral"
                      /\ ScanAlerts[AlertsBefore(tk, i)].severity = "Low"
                      /\ ScanAlerts[AlertsBefore(tk, i)].alert_type = "Market Movement"

C10_Witness ==
    /\ ScanOk
    /\ scan_call.tickers = <<"MSFT", "XYZ", "AAPL">>
    /\ Len(ScanAlerts) = 5
    /\ ScanAlerts[3].ticker = "XYZ"

\* ------------------------------------------- claims on the orchestrator
OrchCalled(op) == orch_call.called /\ orch_call.op = op

OrchOk(op) == OrchCalled(op) /\ orch_call.outcome.status = "ok"

\* The names of the collaborators the call invoked, in order.
InvokedNames == [i \in 1 .. Len(orch_call.invoked) |-> orch_call.invoked[i].name]

\* The calls the call made of one collaborator.
CallsOf(name) == SelectSeq(orch_call.invoked, LAMBDA c : c.name = name)

\* What the Holdings Provider answers to the call: the binding of the name
\* applied to the requested fund at the clock value of the call.
Fetched == Invoke(patches.holdings, get_portfolio_holdings(orch_call.fund_name, now))

FetchedParsed == Fetched.status = "ok" /\ IsJson(Fetched.value)

\* The ticker list of the call: the non-empty tickers of the fetched holdings.
FetchedTickers == extract_tickers(Get(json_loads(Fetched.value), "holdings", <<>>))

\* C11: a successful scan_portfolio call whose ticker list is not empty
\* invoked the Holdings Provider, the News Scanner, the Risk Scoring Engine
\* and the Reporting Agent exactly once each and in that order, each stage on
\* what the stages before it returned: the news scan on the tickers of the
\* fetched holdings, the risk analysis on the fetched portfolio.
C11_StagesOnceInOrder ==
    (OrchOk("scan_portfolio") /\ FetchedParsed /\ FetchedTickers # <<>>) =>
      /\ InvokedNames = << "get_portfolio_holdings", "scan_market_news",
                           "analyze_risk_exposure", "generate_report" >>
      /\ orch_call.invoked[1].args = <<orch_call.fund_name>>
      /\ orch_call.invoked[2].args = <<FetchedTickers>>
      /\ orch_call.invoked[3].args[1] = Fetched.value
      /\ orch_call.invoked[4].args = <<orch_call.fund_name>>

C11_Witness ==
    /\ OrchOk("scan_portfolio")
    /\ FetchedParsed
    /\ Len(FetchedTickers) >= 2
    /\ Len(orch_call.invoked) = 4

\* C12: when the ticker list extracted from the fetched holdings is empty,
\* scan_portfolio and get_portfolio_risk_assessment never invoke the News
\* Scanner and hand the Risk Scoring Engine the fetched portfolio with the
\* sentinel news bundle (empty scan_timestamp, no alerts); the pipeline goes on
\* from there, and with the repository's engine and reporting agent the call
\* completes.
C12_EmptyTickersSkipNews ==
    \A op \in {"scan_portfolio", "get_portfolio_risk_assessment"} :
      (OrchCalled(op) /\ ~BlankName(orch_call.fund_name)
         /\ FetchedParsed /\ FetchedTickers = <<>>) =>
        /\ CallsOf("scan_market_news") = <<>>
        /\ CallsOf("analyze_risk_exposure") =
             <<Called("analyze_risk_exposure", <<Fetched.value, SentinelNews>>)>>
        /\ SentinelNews.doc.scan_timestamp = <<>> /\ SentinelNews.doc.alerts = <<>>
        /\ (patches.risk = Real /\ patches.report = Real) =>
             orch_call.outcome.status = "ok"

C12_Witness ==
    /\ OrchOk("scan_portfolio")
    /\ FetchedParsed
    /\ Len(Get(json_loads(Fetched.value), "holdings", <<>>)) = 1
    /\ FetchedTickers = <<>>
    /\ InvokedNames = <<"get_portfolio_holdings", "analyze_risk_exposure", "generate_report">>

\* What the later collaborators answer in the call, each asked with what the
\* collaborators before it answered (the News Scanner is not asked when there
\* is no ticker).
NewsAnswered ==
    IF FetchedTickers = <<>> THEN Return(SentinelNews)
    ELSE Invoke(patches.news, scan_market_news(FetchedTickers, now))

RiskAnswered ==
    Invoke(patches.risk, analyze_risk_exposure(Fetched.value, NewsAnswered.value, now))

ReportAnswered ==
    Invoke(patches.report,
           generate_report(orch_call.fund_name, Return(generate_mock_response(now))))

\* The collaborators a scan has invoked once the news stage is over.
CallsThroughNews ==
    <<"get_portfolio_holdings">>
    \o (IF FetchedTickers = <<>> THEN <<>> ELSE <<"scan_market_news">>)

Failure(stage, cause, calls) == [stage |-> stage, cause |-> cause, calls |-> calls]

\* The first stage of the scan that fails, in the order holdings fetch,
\* holdings parse, news scan, risk analysis, parse of the risk analysis
\* output, report generation; with the text of its error and the
\* collaborators invoked up to it.
FirstFailure ==
    IF Fetched.status # "ok"
      THEN Failure("holdings fetch", <<Fetched.message>>, <<"get_portfolio_holdings">>)
    ELSE IF ~IsJson(Fetched.value)
      THEN Failure("holdings parse",
                   <<"Failed to parse portfolio data: ", JSONDecodeError>>,
                   <<"get_portfolio_holdings">>)
    ELSE IF NewsAnswered.status # "ok"
      THEN Failure("news scan", <<NewsAnswered.message>>, CallsThroughNews)
    ELSE IF RiskAnswered.status # "ok"
      THEN Failure("risk analysis", <<RiskAnswered.message>>,
                   Append(CallsThroughNews, "analyze_risk_exposure"))
    ELSE IF ~IsJson(RiskAnswered.value)
      THEN Failure("risk output parse", <<JSONDecodeError>>,
                   Append(CallsThroughNews, "analyze_risk_exposure"))
    ELSE IF ReportAnswered.status # "ok"
      THEN Failure("report generation", ReportAnswered.message,
                   CallsThroughNews \o <<"analyze_risk_exposure", "generate_report">>)
    ELSE Failure("none", <<>>, <<>>)

\* The last n pieces of a message.
Suffix(msg, n) == SubSeq(msg, Len(msg) - n + 1, Len(msg))

\* C13: when a stage of scan_portfolio fails (holdings fetch, holdings parse,
\* news scan, risk analysis, parse of the risk analysis output, report
\* generation) the call returns no ScanResult: it raises one RuntimeError
\* whose message names the fund and ends with the text of the cause, and it
\* invoked no collaborator of a stage after the failing one.
C13_AnyFailureAborts ==
    (OrchCalled("scan_portfolio") /\ ~BlankName(orch_call.fund_name)
       /\ FirstFailure.stage # "none") =>
      /\ orch_call.outcome.status = "RuntimeError"
      /\ Contains(orch_call.outcome.message, orch_call.fund_name)
      /\ Suffix(orch_call.outcome.message, Len(FirstFailure.cause)) = FirstFailure.cause
      /\ InvokedNames = FirstFailure.calls

\* A scan whose risk analysis output does not parse, and which returned.
C13_Witness ==
    /\ OrchOk("scan_portfolio")
    /\ FirstFailure.stage = "risk output parse"
    /\ orch_call.outcome.value.action_items = <<>>
    /\ InvokedNames[Len(InvokedNames)] = "generate_report"

\* The same statement for the stages other than the parse of the risk
\* analysis output: these do abort the call with the wrapped error.
C13_OtherFailuresAbort ==
    (OrchCalled("scan_portfolio") /\ ~BlankName(orch_call.fund_name)
       /\ FirstFailure.stage \notin {"none", "risk output parse"}) =>
      /\ orch_call.outcome.status = "RuntimeError"
      /\ Contains(orch_call.outcome.message, orch_call.fund_name)
      /\ Suffix(orch_call.outcome.message, Len(FirstFailure.cause)) = FirstFailure.cause
      /\ InvokedNames = FirstFailure.calls

\* The fund names that are empty or whitespace-only: None, "" and " ".
EmptyFundNames == {None, "", " "}

\* C14: scan_portfolio, get_portfolio_summary and
\* get_portfolio_risk_assessment called with an empty or whitespace-only fund
\* name raise ValueError itself, not the wrapped RuntimeError, and have
\* invoked no collaborator.
C14_BlankNameRejected ==
    (orch_call.called /\ orch_call.fund_name \in EmptyFundNames) =>
      /\ orch_call.outcome.status = "ValueError"
      /\ orch_call.outcome.message =
           <<"fund_name cannot be empty or contain only whitespace">>
      /\ orch_call.invoked = <<>>

C14_Witness ==
    /\ OrchCalled("get_portfolio_risk_assessment")
    /\ orch_call.fund_name = " "
    /\ orch_call.outcome.status = "ValueError"
    /\ patches.holdings = Real

\* The Risk Scoring Engine answered with a RiskAssessment: a JSON document
\* carrying action_items.
RiskAssessed ==
    /\ RiskAnswered.status = "ok"
    /\ IsJson(RiskAnswered.value)
    /\ "action_items" \in DOMAIN json_loads(RiskAnswered.value)

\* The Reporting Agent answered with a report string.
Reported == ReportAnswered.status = "ok" /\ "report" \in DOMAIN ReportAnswered.value

\* C15: a ScanResult returned by scan_portfolio carries the requested fund
\* name (whatever name the fetched portfolio document carries), as report the
\* string the Reporting Agent produced in the call, and as action_items the
\* action_items of the RiskAssessment the engine produced in the call, the
\* same items in the same order.
C15_ScanResultFields ==
    OrchOk("scan_portfolio") =>
      /\ DOMAIN orch_call.outcome.value = {"fund_name", "report", "action_items"}
      /\ orch_call.outcome.value.fund_name = orch_call.fund_name
      /\ Reported => orch_call.outcome.value.report = ReportAnswered.value.report
      /\ RiskAssessed =>
           orch_call.outcome.value.action_items =
             json_loads(RiskAnswered.value).action_items

C15_Witness ==
    /\ OrchOk("scan_portfolio")
    /\ RiskAssessed
    /\ Reported
    /\ Len(orch_call.outcome.value.action_items) = 2
    /\ orch_call.outcome.value.report = fstring(<<"Test report">>)
    /\ json_loads(Fetched.value).fund_name # orch_call.fund_name

\* The four fields of a RiskAssessment that get_portfolio_risk_assessment
\* hands on.
AssessmentFields == {"risk_score", "overall_risk_level", "key_findings", "action_items"}

\* C20: get_portfolio_summary invokes the Holdings Provider and nothing else;
\* get_portfolio_risk_assessment invokes the Holdings Provider, the News
\* Scanner (unless the ticker list is empty) and the Risk Scoring Engine, in
\* that order and once each, stopping at the first that fails; neither invokes
\* the Reporting Agent; and a returned risk assessment carries the engine's
\* risk_score, overall_risk_level, key_findings and action_items unchanged.
C20_ReadOnlyQueries ==
    /\ (OrchCalled("get_portfolio_summary") /\ ~BlankName(orch_call.fund_name)) =>
         InvokedNames = <<"get_portfolio_holdings">>
    /\ (OrchCalled("get_portfolio_risk_assessment") /\ ~BlankName(orch_call.fund_name)) =>
         /\ CallsOf("generate_report") = <<>>
         /\ InvokedNames =
              IF ~FetchedParsed THEN <<"get_portfolio_holdings">>
              ELSE IF NewsAnswered.status # "ok" THEN CallsThroughNews
              ELSE Append(CallsThroughNews, "analyze_risk_exposure")
    /\ OrchOk("get_portfolio_risk_assessment") =>
         /\ orch_call.outcome.value.fund_name = orch_call.fund_name
         /\ \A k \in AssessmentFields :
              k \in DOMAIN json_loads(RiskAnswered.value) =>
                orch_call.outcome.value[k] = json_loads(RiskAnswered.value)[k]

C20_Witness ==
    /\ OrchOk("get_portfolio_risk_assessment")
    /\ InvokedNames = <<"get_portfolio_holdings", "scan_market_news", "analyze_risk_exposure">>
    /\ AssessmentFields \subseteq DOMAIN json_loads(RiskAnswered.value)
    /\ patches.risk # Real
    /\ orch_call.outcome.value.risk_score = 75

\* ------------------------------------------------- claims on the batch
BatchReturned == batch_pc = "done" /\ batch_out.status = "ok"

\* The scan of fund i raised.
ScanRaised(i) == scans[i].outcome.status # "ok"

\* What the claim says of a returned batch: one entry per fund, in input
\* order; the entry of a fund whose scan raised has no action items and a
\* report made of "Error: " and the error text; the entry of any other fund is
\* the scan result itself; every fund was scanned.
BatchIsolated ==
    LET res == batch_out.value
    IN  /\ Len(res) = Len(fund_names)
        /\ Len(scans) = Len(fund_names)
        /\ \A i \in 1 .. Len(fund_names) :
              /\ scans[i].invoked # <<>>
              /\ res[i].fund_name = fund_names[i]
              /\ IF ScanRaised(i)
                   THEN /\ res[i].action_items = <<>>
                        /\ res[i].report = fstring(<<"Error: ">> \o scans[i].outcome.message)
                   ELSE res[i] = scans[i].outcome.value

\* C19: batch_process_portfolios on a non-empty list of non-blank fund names
\* returns one entry per fund, entry i for fund i, whatever subset of the
\* scans raised: empty action_items and the error text as report for a failed
\* fund, the unchanged scan result for a successful one, and the funds after
\* a failed one are scanned too.
C19_PartialFailureIsolation == BatchReturned => BatchIsolated

\* A returned batch with more entries than funds: the scan of a fund
\* succeeded, and the fund has a second, error-shaped entry.
C19_Witness ==
    /\ BatchReturned
    /\ Len(fund_names) = 2
    /\ Len(batch_out.value) > 2
    /\ ~ScanRaised(1)
    /\ batch_out.value[1] = scans[1].outcome.value
    /\ batch_out.value[2].fund_name = fund_names[1]

\* Every successful scan of the batch was followed by print() calls that
\* worked.
AllShown ==
    \A i \in 1 .. Len(scans) :
      ~ScanRaised(i) =>
        display(scans[i].outcome.value, fund_names[i], console).status = "ok"

\* The same statement for the batches whose print() calls all work: there it
\* holds, scans that raise included.
C19_IsolationWhenShown == (BatchReturned /\ AllShown) => BatchIsolated

C19_IsolationWitness ==
    /\ BatchReturned
    /\ AllShown
    /\ Len(fund_names) = 2
    /\ ScanRaised(1)
    /\ ~ScanRaised(2)

\* ----------------------------------------- claims on the reporting agent
Built == reporter.state = "built"

\* The backend generate_response dispatches to, by the tests of its if
\* statement.
Primary == Built /\ reporter.self.use_azure /\ reporter.self.client # None

Secondary == Built /\ ~Primary /\ reporter.self.openai_client # None

LocalFallback == Built /\ ~Primary /\ ~Secondary

\* The operations of each external backend.
PrimaryOps ==
    {"create_agent", "create_thread", "create_message", "create_run", "get_run",
     "list_messages"}

SecondaryOps == {"chat.completions.create"}

ConnConfigured == config.AZURE_AI_PROJECT_CONNECTION_STRING \notin {Absent, ""}

KeyConfigured == config.OPENAI_API_KEY # ""

\* generate_response requests operations of the selected backend only.
DispatchedToChosen ==
    \A c \in DOMAIN gen :
      gen[c].contacted \subseteq
        (IF Primary THEN PrimaryOps ELSE IF Secondary THEN SecondaryOps ELSE {})

\* C16: constructing the Reporting Agent selects a backend by fixed priority:
\* the primary one iff it is available, its connection credential is
\* configured and its client initialises; otherwise the secondary one iff a
\* secondary API key is configured; otherwise the local fallback; and
\* generate_response goes to the selected backend, to none of lower priority
\* first.
C16_BackendPriority ==
    /\ reporter.state # "failed"
    /\ Built =>
         /\ Primary <=> (config.AZURE_AVAILABLE /\ ConnConfigured
                           /\ reporter.self.client # None)
         /\ ~Primary => (Secondary <=> KeyConfigured)
         /\ DispatchedToChosen

\* The primary library is importable, Settings defines no connection string,
\* a secondary key is configured and its library importable: constructing the
\* agent through create_reporting_agent raised instead of selecting.
C16_Witness ==
    /\ reporter.state = "failed"
    /\ reporter.error.status = "RuntimeError"
    /\ config.AZURE_AVAILABLE
    /\ config.AZURE_AI_PROJECT_CONNECTION_STRING = Absent
    /\ config.OPENAI_AVAILABLE
    /\ KeyConfigured

\* What does hold of an agent that was constructed: the primary backend only
\* when available and configured, the secondary only when its library is
\* importable and its key configured, the local fallback when neither key nor
\* connection string is configured, and the dispatch to the selected backend.
C16_SelectionSound ==
    Built =>
      /\ Primary => (config.AZURE_AVAILABLE /\ ConnConfigured)
      /\ Secondary => (config.OPENAI_AVAILABLE /\ KeyConfigured)
      /\ (~ConnConfigured /\ ~KeyConfigured) => LocalFallback
      /\ DispatchedToChosen

\* The generate_response call of caller c was on a non-empty prompt and is
\* over.
Answered(c) == gen[c].pc = "done" /\ ~BlankName(gen[c].prompt)

ReportSections ==
    {"portfolio_summary", "holdings_analysis", "market_insights", "risk_assessment",
     "recommendations"}

\* Neither a connection string nor an API key is configured.
NoCredentials == ~ConnConfigured /\ ~KeyConfigured

\* C18: with no backend credentials configured, generate_response on a
\* non-empty prompt returns a str that parses as JSON with the five sections
\* portfolio_summary, holdings_analysis, market_insights, risk_assessment and
\* recommendations, and requests nothing of an external backend, at any point
\* of the call; on an empty or whitespace-only prompt it raises ValueError,
\* whatever is configured.
C18_FallbackPayload ==
    \A c \in DOMAIN gen :
      /\ (Built /\ NoCredentials) =>
           /\ gen[c].pc \in {"idle", "done"}
           /\ gen[c].contacted = {}
           /\ Answered(c) =>
                /\ gen[c].outcome.status = "ok"
                /\ IsJson(gen[c].outcome.value)
                /\ ReportSections \subseteq DOMAIN json_loads(gen[c].outcome.value)
      /\ (gen[c].pc = "done" /\ BlankName(gen[c].prompt)) =>
           /\ gen[c].outcome.status = "ValueError"
           /\ gen[c].contacted = {}

C18_Witness ==
    \E c \in DOMAIN gen :
      /\ Built
      /\ NoCredentials
      /\ config.AZURE_AVAILABLE
      /\ config.OPENAI_AVAILABLE
      /\ Answered(c)
      /\ DOMAIN json_loads(gen[c].outcome.value) = ReportSections

\* ------------------------------------------------- the ticker list (C23)
\* The holdings of the fetched portfolio document.
FetchedHoldings == Get(json_loads(Fetched.value), "holdings", <<>>)

\* The positions of the holdings that have a non-empty ticker.
Ticked ==
    { i \in 1 .. Len(FetchedHoldings) :
        /\ "ticker" \in DOMAIN FetchedHoldings[i]
        /\ FetchedHoldings[i].ticker \notin {"", None} }

\* The k-th of these positions, in holdings order.
TickedAt(k) == CHOOSE i \in Ticked : Cardinality({j \in Ticked : j <= i}) = k

\* The ticker fields at these positions, one entry per position.
TickerFields == [k \in 1 .. Cardinality(Ticked) |-> FetchedHoldings[TickedAt(k)].ticker]

\* C23: the ticker list scan_portfolio and get_portfolio_risk_assessment pass
\* to the News Scanner is the sequence of the ticker fields of the holdings
\* that have a non-empty ticker, in holdings order, a ticker held twice listed
\* twice, the holdings with a missing or an empty ticker skipped; when no
\* holding has one the News Scanner is not called.
C23_TickersExtracted ==
    \A op \in {"scan_portfolio", "get_portfolio_risk_assessment"} :
      (OrchCalled(op) /\ ~BlankName(orch_call.fund_name) /\ FetchedParsed) =>
        CallsOf("scan_market_news") =
          IF TickerFields = <<>> THEN <<>>
          ELSE <<Called("scan_market_news", <<TickerFields>>)>>

\* A portfolio of four holdings, one without a ticker, one with an empty
\* ticker and two of the same ticker: the News Scanner got that ticker twice.
C23_Witness ==
    /\ OrchCalled("scan_portfolio")
    /\ FetchedParsed
    /\ Len(FetchedHoldings) = 4
    /\ Ticked = {1, 4}
    /\ CallsOf("scan_market_news") = <<Called("scan_market_news", <<<<"AAPL", "AAPL">>>>)>>

\* ------------------------------------------ the reference fixtures (C26)
\* The three tool functions are the repository's own.
ReferenceTools == patches.holdings = Real /\ patches.news = Real /\ patches.risk = Real

\* The portfolio and the news bundle the Risk Scoring Engine was called with.
EngineArgs == CallsOf("analyze_risk_exposure")[1].args

EngineHoldings == Get(json_loads(EngineArgs[1]), "holdings", <<>>)

EngineAlerts == Get(json_loads(EngineArgs[2]), "alerts", <<>>)

\* The number of these alerts with sentiment s.
EngineAlertsWith(s) ==
    Cardinality({i \in 1 .. Len(EngineAlerts) : EngineAlerts[i].sentiment = s})

\* C26: with the repository's holdings provider, news scanner and risk engine,
\* every scan_portfolio and get_portfolio_risk_assessment call on a valid fund
\* name analyses 5 holdings with 5 Positive and 2 Negative alerts; the risk
\* assessment returned has risk_score 35, overall_risk_level Medium and no
\* action items, and every scan result returned has no action items, whatever
\* the fund name and the time of the call.
C26_FixtureAssessment ==
    /\ \A op \in {"scan_portfolio", "get_portfolio_risk_assessment"} :
         (OrchCalled(op) /\ ~BlankName(orch_call.fund_name) /\ ReferenceTools) =>
           /\ Len(CallsOf("analyze_risk_exposure")) = 1
           /\ Len(EngineHoldings) = 5
           /\ EngineAlertsWith("Positive") = 5
           /\ EngineAlertsWith("Negative") = 2
           /\ Len(EngineAlerts) = 7
    /\ (OrchCalled("get_portfolio_risk_assessment") /\ ~BlankName(orch_call.fund_name)
          /\ ReferenceTools) =>
         /\ orch_call.outcome.status = "ok"
         /\ orch_call.outcome.value.risk_score = 35
         /\ orch_call.outcome.value.overall_risk_level = "Medium"
         /\ orch_call.outcome.value.action_items = <<>>
    /\ (OrchOk("scan_portfolio") /\ ReferenceTools) =>
         /\ orch_call.outcome.value.action_items = <<>>
         /\ orch_call.outcome.value.fund_name = orch_call.fund_name

\* A scan of the second fund name, at the later clock value, with the
\* repository's tools and reporting agent throughout.
C26_Witness ==
    /\ OrchOk("scan_portfolio")
    /\ ReferenceTools
    /\ patches.report = Real
    /\ orch_call.fund_name = "Fund B"
    /\ now = MaxClock
    /\ orch_call.outcome.value.action_items = <<>>
    /\ EngineAlertsWith("Negative") = 2

\* --------------------------------------- the outer clamp of the score (C27)
\* C27: the clamp of the risk score to [0,100] is never active: in every
\* RiskAssessment returned, concentration_risk is in [0,20],
\* news_sentiment_impact in [-15,30], and risk_score is exactly
\* 30 + concentration_risk + news_sentiment_impact, which lies in [15,80].
C27_ClampInactive ==
    RiskOk =>
      LET m == Assessment.exposure_metrics
      IN  /\ m.concentration_risk \in 0 .. 20
          /\ m.news_sentiment_impact \in -15 .. 30
          /\ Assessment.risk_score = 30 + m.concentration_risk + m.news_sentiment_impact
          /\ Assessment.risk_score \in 15 .. 80

\* The largest score: more than fourteen holdings, three Negative alerts and
\* no Positive one.
C27_Witness ==
    /\ RiskOk
    /\ Len(ArgHoldings) >= 15
    /\ NumWith("Negative") >= 3
    /\ Assessment.exposure_metrics.concentration_risk = 20
    /\ Assessment.exposure_metrics.news_sentiment_impact = 30
    /\ Assessment.risk_score = 80

\* ------------------------------------------- monotonicity of the score (C28)
\* The documents of the latest call with one more alert, one more holding.
WithAlert(a) ==
    LET d == risk_call.news_data.doc
    IN  json_dumps([k \in DOMAIN d \cup {"alerts"} |->
                      IF k = "alerts" THEN Append(ArgAlerts, a) ELSE d[k]])

WithHolding ==
    LET d == risk_call.portfolio_data.doc
    IN  json_dumps([k \in DOMAIN d \cup {"holdings"} |->
                      IF k = "holdings" THEN Append(ArgHoldings, Holding) ELSE d[k]])

\* The RiskAssessment of a further call on the given documents.
Reassessed(pdata, ndata) == analyze_risk_exposure(pdata, ndata, now).value.doc

\* Assessment a is at most assessment b, in score and in level.
AtMost(a, b) ==
    /\ a.risk_score <= b.risk_score
    /\ LevelRank(a.overall_risk_level) <= LevelRank(b.overall_risk_level)

AfterAlert(s) ==
    Reassessed(risk_call.portfolio_data,
               WithAlert([ticker |-> "AAPL", sentiment |-> s]))

AfterHolding == Reassessed(WithHolding, risk_call.news_data)

\* C28: with the other input unchanged, one more Negative alert never lowers
\* risk_score, one more Positive alert never raises it, one more holding never
\* lowers it, one more Neutral alert (or alert without sentiment) leaves it as
\* it is; and overall_risk_level moves the same way in the order
\* Low < Medium < High < Critical.
C28_ScoreMonotone ==
    RiskOk =>
      /\ AtMost(Assessment, AfterAlert("Negative"))
      /\ AtMost(AfterAlert("Positive"), Assessment)
      /\ AtMost(Assessment, AfterHolding)
      /\ AtMost(Assessment, AfterAlert("Neutral"))
      /\ AtMost(AfterAlert("Neutral"), Assessment)
      /\ LET bare == Reassessed(risk_call.portfolio_data, WithAlert([ticker |-> "AAPL"]))
         IN  AtMost(Assessment, bare) /\ AtMost(bare, Assessment)

\* Five holdings and one Negative alert (score 40, Medium): a second Negative
\* alert gives 50 and High, a Positive alert 35, a sixth holding 42.
C28_Witness ==
    /\ RiskOk
    /\ Len(ArgHoldings) = 5
    /\ Assessment.risk_score = 40
    /\ AfterAlert("Negative").risk_score = 50
    /\ AfterAlert("Negative").overall_risk_level = "High"
    /\ Assessment.overall_risk_level = "Medium"
    /\ AfterAlert("Positive").risk_score = 35
    /\ AfterHolding.risk_score = 42
    /\ AfterAlert("Neutral").risk_score = 40

\* ----------------------------------------------- cross-call state (C21)
\* A step of a generate_response call: its start, or the return of a request
\* it awaited.  ReportingAgent.generate_report, and through it
\* scan_portfolio, acts on the agent by such calls only.
CallStep == gen' # gen

InFlight == \E c \in DOMAIN gen : gen[c].pc \notin {"idle", "done"}

\* A call is in the poll loop, its run not in a terminal status.
Polling ==
    \E c \in DOMAIN gen : gen[c].pc = "poll" /\ gen[c].run \notin TerminalStatuses

\* C22: a generate_response call on the primary backend eventually returns,
\* whatever the remote run does, a run that never reaches completed, failed or
\* cancelled included: the polling stops after a bounded number of attempts.
C22_EventuallyReturns == InFlight ~> ~InFlight

\* The call has polled at least once and the run is still not terminal.
C22_Witness ==
    \E c \in DOMAIN gen :
      /\ gen[c].pc = "poll"
      /\ gen[c].run = "in_progress"
      /\ "get_run" \in gen[c].contacted

\* What does hold: the call returns once a request raises or the run is
\* reported in a terminal status; it can stay suspended only in the poll loop.
C22_ReturnsUnlessPolling == InFlight ~> (~InFlight \/ Polling)

\* ------------------------------------------------- a failed run (C24)
\* The error _generate_azure_response raises for a failed run.
RunFailedError == Raise("RuntimeError", <<"Azure agent run failed: ", LastError>>)

Selection ==
    [ use_azure     |-> reporter.self.use_azure,
      client        |-> reporter.self.client,
      openai_client |-> reporter.self.openai_client ]

\* The backend these tests lead to.
SelectedBackend ==
    IF Primary THEN "primary" ELSE IF Secondary THEN "secondary" ELSE "local fallback"

\* C25: once the agent is constructed, no step of a generate_response call,
\* a step at which the selected backend raises and the local fallback answers
\* included, and no register_tool call changes use_azure, client or
\* openai_client, hence the backend the next generate_response call tries
\* first.
C25_SelectionFixed ==
    [][Built => /\ Built'
                /\ Selection' = Selection
                /\ SelectedBackend' = SelectedBackend]_vars

\* The primary backend raised, the local fallback answered, a tool was
\* registered, and the primary backend is still the one selected.
C25_Witness ==
    \E c \in DOMAIN gen :
      /\ Answered(c)
      /\ gen[c].error = ServiceError
      /\ gen[c].outcome = Return(generate_mock_response(now))
      /\ "mock_tool" \in reporter.self.tools
      /\ SelectedBackend = "primary"

C30_SingleRemoteAgent ==
    /\ service.agents <= 1
    /\ service.runs \subseteq {1}

\* Two calls tested "not self.agent" before either creation returned: the
\* service created two agents, one run was created against each, and both
\* calls returned a report without an error.
C30_Witness ==
    /\ service.agents = 2
    /\ service.runs = {1, 2}
    /\ reporter.self.agent = [id |-> 2]
    /\ \A c \in DOMAIN gen : Answered(c) /\ gen[c].error = NoCall

\* What does hold: with one call at a time the remote agent is created at
\* most once successfully and every run is created against it; with
\* concurrent calls at most one agent per caller is created.
C30_SingleAgentPerCaller ==
    /\ service.agents <= Cardinality(DOMAIN gen)
    /\ service.runs \subseteq 1 .. service.agents
    /\ reporter.self.agent.id = service.agents

====
